---- MODULE Spec2Model ----
(***************************************************************************)
(* effect-cypher: the AST intermediate representation, its normalizer      *)
(* (src/src/ast/Normalize.ts), the compiler (src/src/ast/CypherAST.ts)     *)
(* and the AST hasher (src/src/observability/ASTHash.ts).                  *)
(*                                                                         *)
(* Text is modelled as TLA+ strings, read character by character.  A       *)
(* JavaScript object is modelled as the sequence of its [k, v] entries in  *)
(* property enumeration order.                                             *)
(***************************************************************************)
EXTENDS Integers, Sequences, FiniteSets, TLC

\* ------------------------------------------------------------------------
\* Characters: UTF-16 code units and the ICU root collation used by
\* String.prototype.localeCompare.
\* ------------------------------------------------------------------------

\* The printable ASCII characters in code-unit order: U+0020..U+005F and
\* U+0061..U+007E (U+0060, the grave accent, cannot be written in a TLA+
\* string and occurs in no text of the model).
AsciiLow == " !\"#$%&'()*+,-./0123456789:;<=>?@ABCDEFGHIJKLMNOPQRSTUVWXYZ[\\]^_"
AsciiHigh == "abcdefghijklmnopqrstuvwxyz{|}~"
Ascii == AsciiLow \o AsciiHigh

\* The same characters in the primary order of the root collation
\* (whitespace, punctuation, symbols, currency, digits, letters); a letter
\* stands once, in lower case.
CollationOrder == " _-,;:!?.'\"()[]{}@*/\\&#%^+<=>|~$0123456789abcdefghijklmnopqrstuvwxyz"

Upper == "ABCDEFGHIJKLMNOPQRSTUVWXYZ"
Lower == "abcdefghijklmnopqrstuvwxyz"

CharAt(s, i) == SubSeq(s, i, i)

IndexIn(s, c) == CHOOSE i \in 1..Len(s) : CharAt(s, i) = c

CharSet == { CharAt(Ascii, i) : i \in 1..Len(Ascii) }
UpperSet == { CharAt(Upper, i) : i \in 1..Len(Upper) }
DigitSet == { CharAt("0123456789", i) : i \in 1..10 }

\* str.charCodeAt(i)
charCode == [c \in CharSet |-> IF IndexIn(Ascii, c) <= Len(AsciiLow)
                               THEN 31 + IndexIn(Ascii, c)
                               ELSE 32 + IndexIn(Ascii, c)]

toLower == [c \in CharSet |-> IF c \in UpperSet THEN CharAt(Lower, IndexIn(Upper, c)) ELSE c]

\* Primary collation weight of a character, and its tertiary (case) weight:
\* lower case sorts before upper case when everything else is equal.
primaryWeight == [c \in CharSet |-> IndexIn(CollationOrder, toLower[c])]
tertiaryWeight == [c \in CharSet |-> IF c \in UpperSet THEN 1 ELSE 0]

Sign(n) == IF n < 0 THEN -1 ELSE IF n > 0 THEN 1 ELSE 0

\* Lexicographic comparison of two strings under a weight per character,
\* over the positions lo..hi that both strings have; the range is halved so
\* that the recursion stays shallow, and the left half decides first.
RECURSIVE CompareRange(_, _, _, _, _)
CompareRange(w, a, b, lo, hi) ==
  IF lo > hi \/ SubSeq(a, lo, hi) = SubSeq(b, lo, hi) THEN 0
  ELSE IF lo = hi THEN Sign(w[CharAt(a, lo)] - w[CharAt(b, lo)])
  ELSE LET mid == (lo + hi) \div 2
           first == CompareRange(w, a, b, lo, mid)
       IN  IF first # 0 THEN first ELSE CompareRange(w, a, b, mid + 1, hi)

\* The first position where the weights differ decides; a proper prefix
\* sorts first.
CompareBy(w, a, b) ==
  LET n == IF Len(a) < Len(b) THEN Len(a) ELSE Len(b)
      common == CompareRange(w, a, b, 1, n)
  IN  IF common # 0 THEN common ELSE Sign(Len(a) - Len(b))

\* a.localeCompare(b): primary weights of the whole strings first, case last.
localeCompare(a, b) ==
  IF a = b THEN 0
  ELSE LET p == CompareBy(primaryWeight, a, b)
       IN  IF p # 0 THEN p ELSE CompareBy(tertiaryWeight, a, b)

\* The default order of Array.prototype.sort(): by UTF-16 code units.
codeUnitCompare(a, b) == IF a = b THEN 0 ELSE CompareBy(charCode, a, b)


\* ------------------------------------------------------------------------
\* Values and objects
\* ------------------------------------------------------------------------

\* An optional field: absent (undefined) or present with a value.
None == <<>>
Some(v) == <<v>>
IsSome(o) == o # <<>>
Get(o) == o[1]

\* JavaScript truthiness of an optional string: defined and not empty.
Truthy(o) == IsSome(o) /\ Get(o) # ""

\* The literal and parameter values of the model: numbers, strings, booleans.
Num(n) == [t |-> "num", n |-> n]
Str(s) == [t |-> "str", s |-> s]
Bool(b) == [t |-> "bool", b |-> b]

\* One entry of an object: key and value.
Entry(k, v) == [k |-> k, v |-> v]

Keys(obj) == [i \in 1..Len(obj) |-> obj[i].k]

RECURSIVE Join(_, _)
Join(parts, sep) ==
  IF Len(parts) = 0 THEN ""
  ELSE IF Len(parts) = 1 THEN parts[1]
  ELSE parts[1] \o sep \o Join(Tail(parts), sep)

\* String(n) for an integer n.
RECURSIVE digits(_)
digits(n) == IF n < 10 THEN CharAt("0123456789", n + 1)
             ELSE digits(n \div 10) \o CharAt("0123456789", (n % 10) + 1)
numberToString(n) == IF n < 0 THEN "-" \o digits(-n) ELSE digits(n)

\* A canonical array index: the decimal form of an integer 0 .. 2^32 - 2.
\* Such keys are enumerated first, in ascending numeric order, whatever the
\* order they were inserted in.
IsArrayIndex(k) ==
  /\ Len(k) >= 1
  /\ \A i \in 1..Len(k) : CharAt(k, i) \in DigitSet
  /\ (Len(k) = 1 \/ CharAt(k, 1) # "0")
  /\ (Len(k) < 10 \/ (Len(k) = 10 /\ codeUnitCompare(k, "4294967294") <= 0))

\* Numeric order of two canonical array indices.
indexCompare(a, b) ==
  IF Len(a) # Len(b) THEN Sign(Len(a) - Len(b)) ELSE codeUnitCompare(a, b)

HasKey(obj, k) == \E i \in 1..Len(obj) : obj[i].k = k

\* The own property k of an ordinary object defined with the value v: an
\* existing key keeps its place; a new array-index key goes among the index
\* keys in numeric order; any other new key goes to the end.
ObjectDefine(obj, k, v) ==
  IF HasKey(obj, k)
  THEN [i \in 1..Len(obj) |-> IF obj[i].k = k THEN Entry(k, v) ELSE obj[i]]
  ELSE IF IsArrayIndex(k)
  THEN LET before == SelectSeq(obj, LAMBDA e : IsArrayIndex(e.k) /\ indexCompare(e.k, k) < 0)
           after == SelectSeq(obj, LAMBDA e : ~(IsArrayIndex(e.k) /\ indexCompare(e.k, k) < 0))
       IN  before \o <<Entry(k, v)>> \o after
  ELSE Append(obj, Entry(k, v))

\* obj[k] = v on an object created by {}: the assignment defines the own
\* property, except for the key "__proto__", which the object inherits as
\* an accessor: its setter runs and no own property is created.
ObjectSet(obj, k, v) == IF k = "__proto__" THEN obj ELSE ObjectDefine(obj, k, v)

\* Object.fromEntries(entries): the entries are defined one after the other,
\* the key "__proto__" like any other.
RECURSIVE fromEntriesInto(_, _)
fromEntriesInto(obj, entries) ==
  IF Len(entries) = 0 THEN obj
  ELSE fromEntriesInto(ObjectDefine(obj, entries[1].k, entries[1].v), Tail(entries))
fromEntries(entries) == fromEntriesInto(<<>>, entries)

\* obj[k]
ObjectGet(obj, k) == obj[CHOOSE i \in 1..Len(obj) : obj[i].k = k].v

\* Array.prototype.sort(cmp) is stable: an element goes after every element
\* that sorts before it and after the equal elements that precede it.
SortedBy(s, cmp(_, _)) ==
  LET n == Len(s)
      rank(i) == Cardinality({ j \in 1..n : cmp(s[j], s[i]) < 0 })
               + Cardinality({ j \in 1..(i - 1) : cmp(s[j], s[i]) = 0 }) + 1
  IN  [p \in 1..n |-> s[CHOOSE i \in 1..n : rank(i) = p]]

\* ------------------------------------------------------------------------
\* The AST (CypherAST.ts, lines 8-146)
\* ------------------------------------------------------------------------

literal(value) == [tag |-> "Literal", value |-> value]
property(nodeVar, key) == [tag |-> "Property", node |-> nodeVar, key |-> key]
param(name) == [tag |-> "Parameter", name |-> name]
binaryOp(op, left, right) == [tag |-> "BinaryOp", op |-> op, left |-> left, right |-> right]
unaryOp(op, expr) == [tag |-> "UnaryOp", op |-> op, expr |-> expr]
function(name, args) == [tag |-> "Function", name |-> name, args |-> args]
and(left, right) == binaryOp("AND", left, right)
or(left, right) == binaryOp("OR", left, right)
not(expr) == unaryOp("NOT", expr)

\* properties: None, or Some(object of expressions)
node(variable, labels, properties) ==
  [tag |-> "Node", variable |-> variable, labels |-> labels, properties |-> properties]
\* variable, type: None or Some(string)
relationship(direction, type, variable, properties) ==
  [tag |-> "Relationship", variable |-> variable, type |-> type,
   direction |-> direction, properties |-> properties]
path(elements) == [tag |-> "Path", elements |-> elements]

matchClause(pattern, optional) == [tag |-> "Match", pattern |-> pattern, optional |-> optional]
whereClause(condition) == [tag |-> "Where", condition |-> condition]
returnClause(expressions) == [tag |-> "Return", expressions |-> expressions]
createClause(pattern) == [tag |-> "Create", pattern |-> pattern]
deleteClause(variables, detach) == [tag |-> "Delete", variables |-> variables, detach |-> detach]
setClause(assignments) == [tag |-> "Set", assignments |-> assignments]
orderByClause(items) == [tag |-> "OrderBy", items |-> items]
limitClause(count) == [tag |-> "Limit", count |-> count]
skipClause(count) == [tag |-> "Skip", count |-> count]
withClause(expressions) == [tag |-> "With", expressions |-> expressions]

assignment(variable, key, value) == [variable |-> variable, key |-> key, value |-> value]
orderItem(expr, direction) == [expr |-> expr, direction |-> direction]
returnVariable(name, alias) == [tag |-> "Variable", name |-> name, alias |-> alias]
returnExpression(expr, alias) == [tag |-> "Expression", expr |-> expr, alias |-> alias]

query(clauses, params) == [clauses |-> clauses, params |-> params]

\* ------------------------------------------------------------------------
\* JSON.stringify of the AST
\* ------------------------------------------------------------------------

\* A string in JSON: quoted, with the quote and the backslash escaped.
RECURSIVE escapeAll(_)
escapeAll(s) ==
  IF Len(s) = 0 THEN ""
  ELSE IF Len(s) = 1 THEN (IF s = "\"" \/ s = "\\" THEN "\\" \o s ELSE s)
  ELSE LET mid == Len(s) \div 2
       IN  escapeAll(SubSeq(s, 1, mid)) \o escapeAll(SubSeq(s, mid + 1, Len(s)))
escape(s) ==
  IF \E i \in 1..Len(s) : CharAt(s, i) \in {"\"", "\\"} THEN escapeAll(s) ELSE s
jsonString(s) == "\"" \o escape(s) \o "\""

jsonBool(b) == IF b THEN "true" ELSE "false"

jsonValue(v) ==
  CASE v.t = "num" -> numberToString(v.n)
    [] v.t = "str" -> jsonString(v.s)
    [] v.t = "bool" -> jsonBool(v.b)

\* An object from its members, each already rendered as "key":value.
member(k, text) == jsonString(k) \o ":" \o text
jsonObject(members) == "{" \o Join(members, ",") \o "}"
jsonArray(items) == "[" \o Join(items, ",") \o "]"

RECURSIVE stringifyExpr(_)
stringifyExpr(e) ==
  CASE e.tag = "Literal" ->
         jsonObject(<<member("_tag", jsonString(e.tag)), member("value", jsonValue(e.value))>>)
    [] e.tag = "Property" ->
         jsonObject(<<member("_tag", jsonString(e.tag)), member("node", jsonString(e.node)),
                      member("key", jsonString(e.key))>>)
    [] e.tag = "Parameter" ->
         jsonObject(<<member("_tag", jsonString(e.tag)), member("name", jsonString(e.name))>>)
    [] e.tag = "BinaryOp" ->
         jsonObject(<<member("_tag", jsonString(e.tag)), member("op", jsonString(e.op)),
                      member("left", stringifyExpr(e.left)),
                      member("right", stringifyExpr(e.right))>>)
    [] e.tag = "UnaryOp" ->
         jsonObject(<<member("_tag", jsonString(e.tag)), member("op", jsonString(e.op)),
                      member("expr", stringifyExpr(e.expr))>>)
    [] e.tag = "Function" ->
         jsonObject(<<member("_tag", jsonString(e.tag)), member("name", jsonString(e.name)),
                      member("args", jsonArray([i \in 1..Len(e.args) |-> stringifyExpr(e.args[i])]))>>)

stringifyProperties(obj) ==
  jsonObject([i \in 1..Len(obj) |-> member(obj[i].k, stringifyExpr(obj[i].v))])

RECURSIVE stringifyPattern(_)
stringifyPattern(p) ==
  CASE p.tag = "Node" ->
         jsonObject(<<member("_tag", jsonString(p.tag)), member("variable", jsonString(p.variable)),
                      member("labels", jsonArray([i \in 1..Len(p.labels) |-> jsonString(p.labels[i])]))>>
                    \o (IF IsSome(p.properties)
                        THEN <<member("properties", stringifyProperties(Get(p.properties)))>>
                        ELSE <<>>))
    [] p.tag = "Relationship" ->
         jsonObject(<<member("_tag", jsonString(p.tag))>>
                    \o (IF IsSome(p.variable) THEN <<member("variable", jsonString(Get(p.variable)))>> ELSE <<>>)
                    \o (IF IsSome(p.type) THEN <<member("type", jsonString(Get(p.type)))>> ELSE <<>>)
                    \o <<member("direction", jsonString(p.direction))>>
                    \o (IF IsSome(p.properties)
                        THEN <<member("properties", stringifyProperties(Get(p.properties)))>>
                        ELSE <<>>))
    [] p.tag = "Path" ->
         jsonObject(<<member("_tag", jsonString(p.tag)),
                      member("elements", jsonArray([i \in 1..Len(p.elements) |-> stringifyPattern(p.elements[i])]))>>)

stringifyReturnExpr(r) ==
  jsonObject(<<member("_tag", jsonString(r.tag))>>
             \o (IF r.tag = "Variable" THEN <<member("name", jsonString(r.name))>>
                 ELSE <<member("expr", stringifyExpr(r.expr))>>)
             \o (IF IsSome(r.alias) THEN <<member("alias", jsonString(Get(r.alias)))>> ELSE <<>>))

stringifyClause(c) ==
  CASE c.tag = "Match" ->
         jsonObject(<<member("_tag", jsonString(c.tag)), member("pattern", stringifyPattern(c.pattern)),
                      member("optional", jsonBool(c.optional))>>)
    [] c.tag = "Where" ->
         jsonObject(<<member("_tag", jsonString(c.tag)), member("condition", stringifyExpr(c.condition))>>)
    [] c.tag \in {"Return", "With"} ->
         jsonObject(<<member("_tag", jsonString(c.tag)),
                      member("expressions", jsonArray([i \in 1..Len(c.expressions) |-> stringifyReturnExpr(c.expressions[i])]))>>)
    [] c.tag = "Create" ->
         jsonObject(<<member("_tag", jsonString(c.tag)), member("pattern", stringifyPattern(c.pattern))>>)
    [] c.tag = "Delete" ->
         jsonObject(<<member("_tag", jsonString(c.tag)),
                      member("variables", jsonArray([i \in 1..Len(c.variables) |-> jsonString(c.variables[i])])),
                      member("detach", jsonBool(c.detach))>>)
    [] c.tag = "Set" ->
         jsonObject(<<member("_tag", jsonString(c.tag)),
                      member("assignments", jsonArray([i \in 1..Len(c.assignments) |->
                        jsonObject(<<member("variable", jsonString(c.assignments[i].variable)),
                                     member("key", jsonString(c.assignments[i].key)),
                                     member("value", stringifyExpr(c.assignments[i].value))>>)]))>>)
    [] c.tag = "OrderBy" ->
         jsonObject(<<member("_tag", jsonString(c.tag)),
                      member("items", jsonArray([i \in 1..Len(c.items) |->
                        jsonObject(<<member("expr", stringifyExpr(c.items[i].expr)),
                                     member("direction", jsonString(c.items[i].direction))>>)]))>>)
    [] c.tag \in {"Limit", "Skip"} ->
         jsonObject(<<member("_tag", jsonString(c.tag)), member("count", numberToString(c.count))>>)

stringifyParams(obj) ==
  jsonObject([i \in 1..Len(obj) |-> member(obj[i].k, jsonValue(obj[i].v))])

\* JSON.stringify(q) for a Query q
stringifyQuery(q) ==
  jsonObject(<<member("clauses", jsonArray([i \in 1..Len(q.clauses) |-> stringifyClause(q.clauses[i])])),
               member("params", stringifyParams(q.params))>>)

\* ------------------------------------------------------------------------
\* The normalizer (Normalize.ts)
\* ------------------------------------------------------------------------

\* compareExpr: JSON.stringify(a).localeCompare(JSON.stringify(b))
compareExpr(a, b) == localeCompare(stringifyExpr(a), stringifyExpr(b))

\* collectOperands of flattenAssociativeOp: the leaves of the chain of op,
\* left to right.
RECURSIVE collectOperands(_, _)
collectOperands(op, e) ==
  IF e.tag = "BinaryOp" /\ e.op = op
  THEN collectOperands(op, e.left) \o collectOperands(op, e.right)
  ELSE <<e>>

\* operands.reduce((acc, curr) => BinaryOp(op, acc, curr)): no initial value,
\* so the accumulator starts as the first operand.
RECURSIVE reduceBinaryOp(_, _, _)
reduceBinaryOp(op, acc, rest) ==
  IF Len(rest) = 0 THEN acc
  ELSE reduceBinaryOp(op, binaryOp(op, acc, rest[1]), Tail(rest))

\* flattenAssociativeOp: None for a chain of at most two operands.
flattenAssociativeOp(op, left, right) ==
  LET operands == collectOperands(op, binaryOp(op, left, right))
  IN  IF Len(operands) <= 2 THEN None
      ELSE LET sorted == SortedBy(operands, compareExpr)
           IN  Some(reduceBinaryOp(op, sorted[1], Tail(sorted)))

\* The BinaryOp branch of normalizeExpr, on the normalized operands: an
\* AND/OR whose left operand sorts after the right one is returned swapped;
\* otherwise the chain is flattened when it has more than two operands.
normalizeBinaryOp(op, left, right) ==
  IF op = "AND" \/ op = "OR"
  THEN IF compareExpr(left, right) > 0
       THEN binaryOp(op, right, left)
       ELSE LET flattened == flattenAssociativeOp(op, left, right)
            IN  IF IsSome(flattened) THEN Get(flattened)
                ELSE binaryOp(op, left, right)
  ELSE binaryOp(op, left, right)

\* normalizeUnaryOp without the elimination of the double negation.
normalizeUnaryOpKept(op, normalized) == unaryOp(op, normalized)

\* The UnaryOp branch of normalizeExpr, on the normalized operand:
\* NOT NOT x => x
normalizeUnaryOp(op, normalized) ==
  IF op = "NOT" /\ normalized.tag = "UnaryOp" /\ normalized.op = "NOT"
  THEN normalized.expr
  ELSE unaryOp(op, normalized)

RECURSIVE normalizeExpr(_)
normalizeExpr(expr) ==
  CASE expr.tag = "BinaryOp" ->
         normalizeBinaryOp(expr.op, normalizeExpr(expr.left), normalizeExpr(expr.right))
    [] expr.tag = "UnaryOp" ->
         normalizeUnaryOp(expr.op, normalizeExpr(expr.expr))
    [] expr.tag = "Function" ->
         function(expr.name, [i \in 1..Len(expr.args) |-> normalizeExpr(expr.args[i])])
    [] OTHER -> expr

\* The comparator of the property entries: (a || "").localeCompare(b || "")
compareEntryKeys(a, b) == localeCompare(a.k, b.k)

\* normalizeProperties with the values left as they are.
normalizePropertiesValuesKept(properties) ==
  IF IsSome(properties)
  THEN Some(fromEntries(SortedBy(Get(properties), compareEntryKeys)))
  ELSE None

\* Object.fromEntries(Object.entries(properties).map(...).sort(...))
normalizeProperties(properties) ==
  IF IsSome(properties)
  THEN LET obj == Get(properties)
           mapped == [i \in 1..Len(obj) |-> Entry(obj[i].k, normalizeExpr(obj[i].v))]
       IN  Some(fromEntries(SortedBy(mapped, compareEntryKeys)))
  ELSE None

RECURSIVE normalizePattern(_)
normalizePattern(pattern) ==
  CASE pattern.tag = "Node" ->
         [pattern EXCEPT !.labels = SortedBy(pattern.labels, codeUnitCompare),
                         !.properties = normalizeProperties(pattern.properties)]
    [] pattern.tag = "Relationship" ->
         [pattern EXCEPT !.properties = normalizeProperties(pattern.properties)]
    [] pattern.tag = "Path" ->
         [pattern EXCEPT !.elements = [i \in 1..Len(pattern.elements) |->
                                         normalizePattern(pattern.elements[i])]]

normalizeReturnExpr(expr) ==
  IF expr.tag = "Expression" THEN [expr EXCEPT !.expr = normalizeExpr(expr.expr)] ELSE expr

\* The comparator of the Set assignments, on "variable.key".
compareAssignments(a, b) ==
  localeCompare(a.variable \o "." \o a.key, b.variable \o "." \o b.key)

\* normalizeClause that also sorts the OrderBy items by their expressions
\* and the Delete variables.
normalizeClauseSortingAll(clause) ==
  LET compareItems(a, b) == compareExpr(a.expr, b.expr)
  IN  CASE clause.tag \in {"Match", "Create"} ->
             [clause EXCEPT !.pattern = normalizePattern(clause.pattern)]
        [] clause.tag = "Where" -> [clause EXCEPT !.condition = normalizeExpr(clause.condition)]
        [] clause.tag \in {"Return", "With"} ->
             [clause EXCEPT !.expressions = [i \in 1..Len(clause.expressions) |->
                                               normalizeReturnExpr(clause.expressions[i])]]
        [] clause.tag = "Set" ->
             [clause EXCEPT !.assignments =
                SortedBy([i \in 1..Len(clause.assignments) |->
                            [clause.assignments[i] EXCEPT !.value = normalizeExpr(clause.assignments[i].value)]],
                         compareAssignments)]
        [] clause.tag = "OrderBy" ->
             [clause EXCEPT !.items =
                SortedBy([i \in 1..Len(clause.items) |->
                            [clause.items[i] EXCEPT !.expr = normalizeExpr(clause.items[i].expr)]],
                         compareItems)]
        [] clause.tag = "Delete" ->
             [clause EXCEPT !.variables = SortedBy(clause.variables, codeUnitCompare)]
        [] OTHER -> clause

normalizeClause(clause) ==
  CASE clause.tag = "Match" -> [clause EXCEPT !.pattern = normalizePattern(clause.pattern)]
    [] clause.tag = "Where" -> [clause EXCEPT !.condition = normalizeExpr(clause.condition)]
    [] clause.tag = "Return" ->
         [clause EXCEPT !.expressions = [i \in 1..Len(clause.expressions) |->
                                           normalizeReturnExpr(clause.expressions[i])]]
    [] clause.tag = "Create" -> [clause EXCEPT !.pattern = normalizePattern(clause.pattern)]
    [] clause.tag = "Set" ->
         [clause EXCEPT !.assignments =
            SortedBy([i \in 1..Len(clause.assignments) |->
                        [clause.assignments[i] EXCEPT !.value = normalizeExpr(clause.assignments[i].value)]],
                     compareAssignments)]
    [] clause.tag = "OrderBy" ->
         [clause EXCEPT !.items = [i \in 1..Len(clause.items) |->
                                     [clause.items[i] EXCEPT !.expr = normalizeExpr(clause.items[i].expr)]]]
    [] clause.tag = "With" ->
         [clause EXCEPT !.expressions = [i \in 1..Len(clause.expressions) |->
                                           normalizeReturnExpr(clause.expressions[i])]]
    [] OTHER -> clause

\* The order table of compareClausesByOrder.
clauseOrder(tag) ==
  CASE tag = "Match" -> 1
    [] tag = "Where" -> 2
    [] tag = "Create" -> 3
    [] tag = "Delete" -> 4
    [] tag = "Set" -> 5
    [] tag = "With" -> 6
    [] tag = "Return" -> 7
    [] tag = "OrderBy" -> 8
    [] tag = "Skip" -> 9
    [] tag = "Limit" -> 10

\* compareClausesByOrder with the operands of the subtraction exchanged.
compareClausesByOrderReversed(a, b) == clauseOrder(b.tag) - clauseOrder(a.tag)

compareClausesByOrder(a, b) == clauseOrder(a.tag) - clauseOrder(b.tag)

\* normalizeClauses with a sort that reverses the clauses that compare equal.
normalizeClausesTiesReversed(clauses) ==
  SortedBy([i \in 1..Len(clauses) |-> normalizeClause(clauses[Len(clauses) + 1 - i])],
           compareClausesByOrder)

\* normalizeClauses without the sort.
normalizeClausesUnsorted(clauses) == [i \in 1..Len(clauses) |-> normalizeClause(clauses[i])]

\* clauses.map(normalizeClause).sort(compareClausesByOrder)
normalizeClauses(clauses) ==
  SortedBy([i \in 1..Len(clauses) |-> normalizeClause(clauses[i])], compareClausesByOrder)

\* sortParamsStable: the keys in code-unit order are assigned one after the
\* other to a fresh object {}.
RECURSIVE setParams(_, _, _)
setParams(sorted, keys, params) ==
  IF Len(keys) = 0 THEN sorted
  ELSE setParams(ObjectSet(sorted, keys[1], ObjectGet(params, keys[1])), Tail(keys), params)
sortParamsStable(params) == setParams(<<>>, SortedBy(Keys(params), codeUnitCompare), params)

normalize(q) == query(normalizeClauses(q.clauses), sortParamsStable(q.params))

\* Array.prototype.sort sorts its receiver in place.  The receiver of each
\* sort that normalize runs over an array taken from its input: the result
\* of clauses.map (line 24), the result of assignments.map (lines 54-58),
\* the spread copy [...pattern.labels] (line 168).  The other sorts run on
\* arrays that are never part of the input: the local operands (line 149),
\* the mapped Object.entries (lines 171-173, 182-184), Object.keys (line
\* 216); expressions, property objects and params are only read, the
\* results are new objects.
sortReceiverLabelsInPlace == [clauses |-> "map", assignments |-> "map", labels |-> "input"]

sortReceiver == [clauses |-> "map", assignments |-> "map", labels |-> "spread"]

\* What a call of normalize leaves in the pattern, the clause and the query
\* it was given: an array of the input is left sorted when it is itself the
\* receiver of a sort, and left as it was when the receiver is a copy.
RECURSIVE leftInPattern(_)
leftInPattern(pattern) ==
  CASE pattern.tag = "Node" ->
         IF sortReceiver.labels = "input"
         THEN [pattern EXCEPT !.labels = SortedBy(pattern.labels, codeUnitCompare)]
         ELSE pattern
    [] pattern.tag = "Relationship" -> pattern
    [] pattern.tag = "Path" ->
         [pattern EXCEPT !.elements = [i \in 1..Len(pattern.elements) |->
                                         leftInPattern(pattern.elements[i])]]

leftInClause(clause) ==
  CASE clause.tag \in {"Match", "Create"} ->
         [clause EXCEPT !.pattern = leftInPattern(clause.pattern)]
    [] clause.tag = "Set" ->
         IF sortReceiver.assignments = "input"
         THEN [clause EXCEPT !.assignments = SortedBy(clause.assignments, compareAssignments)]
         ELSE clause
    [] OTHER -> clause

leftByNormalize(q) ==
  LET clauses == [i \in 1..Len(q.clauses) |-> leftInClause(q.clauses[i])]
  IN  query(IF sortReceiver.clauses = "input"
            THEN SortedBy(clauses, compareClausesByOrder)
            ELSE clauses,
            q.params)

\* ------------------------------------------------------------------------
\* The compiler (CypherAST.ts, lines 148-276)
\* ------------------------------------------------------------------------

RECURSIVE compileExpr(_)
compileExpr(expr) ==
  CASE expr.tag = "Literal" -> jsonValue(expr.value)
    [] expr.tag = "Property" -> expr.node \o "." \o expr.key
    [] expr.tag = "Parameter" -> "$" \o expr.name
    [] expr.tag = "BinaryOp" ->
         compileExpr(expr.left) \o " " \o expr.op \o " " \o compileExpr(expr.right)
    [] expr.tag = "UnaryOp" ->
         IF expr.op = "NOT" THEN "NOT " \o compileExpr(expr.expr)
         ELSE IF expr.op = "IS NULL" \/ expr.op = "IS NOT NULL"
         THEN compileExpr(expr.expr) \o " " \o expr.op
         ELSE expr.op \o compileExpr(expr.expr)
    [] expr.tag = "Function" ->
         expr.name \o "(" \o Join([i \in 1..Len(expr.args) |-> compileExpr(expr.args[i])], ", ") \o ")"

\* The " {k: v, ...}" part of a node or relationship, empty when there are
\* no properties.
compileProperties(properties) ==
  IF IsSome(properties)
  THEN LET obj == Get(properties)
       IN  " {" \o Join([i \in 1..Len(obj) |-> obj[i].k \o ": " \o compileExpr(obj[i].v)], ", ") \o "}"
  ELSE ""

RECURSIVE compilePattern(_)
compilePattern(pattern) ==
  CASE pattern.tag = "Node" ->
         LET labels == IF Len(pattern.labels) > 0 THEN ":" \o Join(pattern.labels, ":") ELSE ""
         IN  "(" \o pattern.variable \o labels \o compileProperties(pattern.properties) \o ")"
    [] pattern.tag = "Relationship" ->
         LET variable == IF Truthy(pattern.variable) THEN Get(pattern.variable) ELSE ""
             type == IF Truthy(pattern.type) THEN ":" \o Get(pattern.type) ELSE ""
             body == "[" \o variable \o type \o compileProperties(pattern.properties) \o "]"
         IN  (CASE pattern.direction = "out" -> "-" \o body \o "->"
                [] pattern.direction = "in" -> "<-" \o body \o "-"
                [] pattern.direction = "both" -> "-" \o body \o "-")
    [] pattern.tag = "Path" ->
         Join([i \in 1..Len(pattern.elements) |-> compilePattern(pattern.elements[i])], "")

compileReturnExpr(expr) ==
  CASE expr.tag = "Variable" ->
         IF Truthy(expr.alias) THEN expr.name \o " AS " \o Get(expr.alias) ELSE expr.name
    [] expr.tag = "Expression" ->
         IF Truthy(expr.alias) THEN compileExpr(expr.expr) \o " AS " \o Get(expr.alias)
         ELSE compileExpr(expr.expr)

compileClause(clause) ==
  CASE clause.tag = "Match" -> "MATCH " \o compilePattern(clause.pattern)
    [] clause.tag = "Where" -> "WHERE " \o compileExpr(clause.condition)
    [] clause.tag = "Return" ->
         "RETURN " \o Join([i \in 1..Len(clause.expressions) |-> compileReturnExpr(clause.expressions[i])], ", ")
    [] clause.tag = "Create" -> "CREATE " \o compilePattern(clause.pattern)
    [] clause.tag = "Delete" ->
         (IF clause.detach THEN "DETACH " ELSE "") \o "DELETE " \o Join(clause.variables, ", ")
    [] clause.tag = "Set" ->
         "SET " \o Join([i \in 1..Len(clause.assignments) |->
                           clause.assignments[i].variable \o "." \o clause.assignments[i].key
                           \o " = " \o compileExpr(clause.assignments[i].value)], ", ")
    [] clause.tag = "OrderBy" ->
         "ORDER BY " \o Join([i \in 1..Len(clause.items) |->
                                compileExpr(clause.items[i].expr) \o " " \o clause.items[i].direction], ", ")
    [] clause.tag = "Limit" -> "LIMIT " \o numberToString(clause.count)
    [] clause.tag = "Skip" -> "SKIP " \o numberToString(clause.count)
    [] clause.tag = "With" ->
         "WITH " \o Join([i \in 1..Len(clause.expressions) |-> compileReturnExpr(clause.expressions[i])], ", ")

\* compile that canonicalizes what it is given before it renders it.
compileCanonicalizing(q) ==
  LET n == normalize(q)
  IN  [cypher |-> Join([i \in 1..Len(n.clauses) |-> compileClause(n.clauses[i])], " "),
       params |-> n.params]

\* compile(q): { cypher, params }
compile(q) ==
  [cypher |-> Join([i \in 1..Len(q.clauses) |-> compileClause(q.clauses[i])], " "),
   params |-> q.params]

\* ------------------------------------------------------------------------
\* The AST hasher (ASTHash.ts, lines 12-28)
\* ------------------------------------------------------------------------

\* a ^ b for naturals
RECURSIVE xor(_, _)
xor(a, b) ==
  IF a = 0 THEN b
  ELSE IF b = 0 THEN a
  ELSE ((a + b) % 2) + 2 * xor(a \div 2, b \div 2)

\* hashStep losing what the low half carries into the high half.
hashStepNoCarry(h, code) ==
  LET lo33 == h.lo * 33
      hi33 == h.hi * 33
      lo == lo33 % 65536
      hi == hi33 % 65536
  IN  [hi |-> xor(hi, code \div 65536) % 65536, lo |-> xor(lo, code % 65536)]

\* The 32-bit hash is kept as two 16-bit halves, so that hash * 33 stays in
\* range: (hash * 33) ^ code, wrapped to 32 bits as the ^ operator does.
hashStep(h, code) ==
  LET lo33 == h.lo * 33
      hi33 == h.hi * 33 + (lo33 \div 65536)
      lo == lo33 % 65536
      hi == hi33 % 65536
  IN  [hi |-> xor(hi, code \div 65536) % 65536, lo |-> xor(lo, code % 65536)]

\* The loop over str[lo..hi], started from h; the range is halved so that
\* the recursion stays shallow, the characters are still taken left to right
\* (the left half is computed, a 32-bit value, before the right half starts).
RECURSIVE hashFrom(_, _, _, _)
hashFrom(h, str, lo, hi) ==
  IF lo > hi THEN h
  ELSE IF lo = hi THEN hashStep(h, charCode[CharAt(str, lo)])
  ELSE LET mid == (lo + hi) \div 2
           left == hashFrom(h, str, lo, mid)
       IN  IF left.hi < 65536 /\ left.lo < 65536
           THEN hashFrom(left, str, mid + 1, hi)
           ELSE left

\* n.toString(16).padStart(4, "0") for a 16-bit n
hex4(n) ==
  LET d(k) == CharAt("0123456789abcdef", ((n \div k) % 16) + 1)
  IN  d(4096) \o d(256) \o d(16) \o d(1)

\* simpleHash: seed 5381; (hash >>> 0).toString(16).padStart(8, "0")
simpleHash(str) ==
  LET h == hashFrom([hi |-> 0, lo |-> 5381], str, 1, Len(str))
  IN  hex4(h.hi) \o hex4(h.lo)

astHash(q) == simpleHash(stringifyQuery(normalize(q)))

\* ------------------------------------------------------------------------
\* Numbers: the IEEE-754 double arithmetic of (p / 100) * n and of
\* (k / n) * 100.  A positive double is [m, e]: the 53 bits m of its
\* mantissa, the first one 1, and its exponent e; its value is
\* 0.m[1]m[2]...m[53] (binary) times 2^e.
\* ------------------------------------------------------------------------

\* The binary digits of the natural number n < 2^30: the first one is 1,
\* or there are width of them.
bitLength(n) == CHOOSE k \in 0..30 : n < 2 ^ k /\ (k = 0 \/ n >= 2 ^ (k - 1))
bitsOfWidth(n, width) == [i \in 1..width |-> (n \div (2 ^ (width - i))) % 2]
bitsOf(n) == bitsOfWidth(n, bitLength(n))

\* The value of a sequence of at most 30 binary digits.
RECURSIVE valueOf(_)
valueOf(bits) ==
  IF Len(bits) = 0 THEN 0
  ELSE IF Len(bits) = 1 THEN bits[1]
  ELSE LET half == Len(bits) \div 2
       IN  valueOf(SubSeq(bits, 1, half)) * (2 ^ (Len(bits) - half))
             + valueOf(SubSeq(bits, half + 1, Len(bits)))

\* 2^i modulo d.
RECURSIVE powerOfTwoMod(_, _)
powerOfTwoMod(i, d) ==
  IF i = 0 THEN 1 % d
  ELSE LET half == powerOfTwoMod(i \div 2, d)
       IN  (half * half * (IF i % 2 = 1 THEN 2 ELSE 1)) % d

\* The first count binary digits of r / d after the point, for 0 <= r < d,
\* followed by the remainder of the long division.
quotientBits(r, d, count) ==
  LET remainder(i) == (r * powerOfTwoMod(i, d)) % d
  IN  [i \in 1..(count + 1) |->
         IF i <= count THEN (2 * remainder(i - 1)) \div d ELSE remainder(count)]

\* The 53 binary digits bits times the natural number n <= 2^16: the product
\* of each limb of 13 digits, from the last one, with the carry of the limb
\* after it.
RECURSIVE limbTimes(_, _, _)
limbTimes(bits, n, j) ==
  IF j = 0 THEN 0
  ELSE LET from == IF 53 - 13 * j + 1 > 1 THEN 53 - 13 * j + 1 ELSE 1
           limb == valueOf(SubSeq(bits, from, 53 - 13 * (j - 1)))
       IN  limb * n + limbTimes(bits, n, j - 1) \div 8192

timesBits(bits, n) ==
  bitsOf(limbTimes(bits, n, 5))
    \o bitsOfWidth(limbTimes(bits, n, 4) % 8192, 13)
    \o bitsOfWidth(limbTimes(bits, n, 3) % 8192, 13)
    \o bitsOfWidth(limbTimes(bits, n, 2) % 8192, 13)
    \o bitsOfWidth(limbTimes(bits, n, 1) % 8192, 13)

\* Round to nearest, ties to even: the digits 0.bits times 2^e, the first
\* digit 1, with more below them iff sticky, as a double.
roundToDouble(bits, e, sticky) ==
  LET kept == [i \in 1..53 |-> IF i <= Len(bits) THEN bits[i] ELSE 0]
      guard == IF Len(bits) > 53 THEN bits[54] ELSE 0
      below == sticky \/ \E i \in 55..Len(bits) : bits[i] = 1
      up == guard = 1 /\ (below \/ kept[53] = 1)
      \* the last 0 of kept becomes 1 and the digits after it 0
      last0 == IF \E i \in 1..53 : kept[i] = 0
               THEN CHOOSE i \in 1..53 : kept[i] = 0 /\ \A j \in (i + 1)..53 : kept[j] = 1
               ELSE 0
  IN  IF ~up THEN [m |-> kept, e |-> e]
      ELSE IF last0 = 0 THEN [m |-> [i \in 1..53 |-> IF i = 1 THEN 1 ELSE 0], e |-> e + 1]
      ELSE [m |-> [i \in 1..53 |-> IF i < last0 THEN kept[i] ELSE IF i = last0 THEN 1 ELSE 0],
            e |-> e]

\* a / b for natural numbers a > 0 and b > 0.
divide(a, b) ==
  LET \* 2^(e - 1) <= a / b < 2^e
      up == bitLength(a \div b)
      shift == CHOOSE s \in 0..31 : a * (2 ^ s) >= b /\ (s = 0 \/ a * (2 ^ (s - 1)) < b)
      e == IF a >= b
           THEN (IF a >= b * (2 ^ up) THEN up + 1 ELSE up)
           ELSE (IF a * (2 ^ shift) = b THEN 1 - shift ELSE 0 - shift + 1)
      num == IF e >= 0 THEN a ELSE a * (2 ^ (0 - e))
      den == IF e >= 0 THEN b * (2 ^ e) ELSE b
      quotient == quotientBits(num, den, 54)
  IN  roundToDouble(SubSeq(quotient, 1, 54), e, quotient[55] # 0)

\* x * n for a double x and a natural number n > 0.
times(x, n) ==
  LET product == timesBits(x.m, n)
  IN  roundToDouble(product, x.e + Len(product) - 53, FALSE)

\* The whole part of the double x and whether it has a fractional part.
whole(x) == IF x.e <= 0 THEN 0 ELSE valueOf(SubSeq(x.m, 1, IF x.e > 53 THEN 53 ELSE x.e))
fractional(x) == x.e <= 0 \/ \E i \in (x.e + 1)..53 : x.m[i] = 1

\* Math.ceil(x) and x > t for a natural number t.
ceil(x) == IF fractional(x) THEN whole(x) + 1 ELSE whole(x)
greater(x, t) == whole(x) > t \/ (whole(x) = t /\ fractional(x))

\* ------------------------------------------------------------------------
\* The authored queries
\* ------------------------------------------------------------------------

\* The largest number of operator nodes (AND, OR, NOT) of an authored
\* condition, of clauses of an authored query and of parameters of an
\* authored mapping.
MaxNodes == 2
MaxClauses == 3
MaxParams == 3

\* The comparisons the authored conditions are built from.
ageAtLeast == binaryOp(">=", property("p", "age"), param("minAge"))
cityIsNYC == binaryOp("=", property("p", "city"), literal(Str("NYC")))
cityIsSF == binaryOp("=", property("p", "city"), literal(Str("SF")))
Atoms == { ageAtLeast, cityIsNYC, cityIsSF }

\* The conditions with exactly n operator nodes.
RECURSIVE ExprsOfSize(_)
ExprsOfSize(n) ==
  IF n = 0 THEN Atoms
  ELSE { not(e) : e \in ExprsOfSize(n - 1) }
       \cup UNION { { binaryOp(op, l, r) : op \in {"AND", "OR"},
                                           l \in ExprsOfSize(i),
                                           r \in ExprsOfSize(n - 1 - i) } : i \in 0..(n - 1) }

Exprs == UNION { ExprsOfSize(n) : n \in 0..MaxNodes }

\* The clauses the authored clause lists are drawn from: every clause tag,
\* with labels, properties, operands and assignments in no particular order.
ClausePool ==
  << matchClause(node("p", <<"Person">>, None), FALSE),
     whereClause(ageAtLeast),
     returnClause(<<returnVariable("p", None)>>),
     matchClause(path(<<node("b", <<"User", "Admin">>,
                             Some(<<Entry("name", param("name")), Entry("age", literal(Num(30)))>>)),
                        relationship("out", Some("KNOWS"), Some("r"),
                                     Some(<<Entry("since", literal(Num(2020)))>>)),
                        node("c", <<>>, None)>>), FALSE),
     whereClause(or(cityIsSF, not(not(cityIsNYC)))),
     createClause(node("n", <<"City">>, Some(<<Entry("name", literal(Str("SF")))>>))),
     [tag |-> "Delete", variables |-> <<"r", "c">>, detach |-> TRUE],
     [tag |-> "Set", assignments |-> <<[variable |-> "p", key |-> "name", value |-> param("name")],
                                       [variable |-> "p", key |-> "age", value |-> literal(Num(31))]>>],
     [tag |-> "With", expressions |->
        <<[tag |-> "Expression", expr |-> function("count", <<property("p", "age")>>), alias |-> Some("n")],
          returnVariable("p", None)>>],
     [tag |-> "OrderBy", items |-> <<[expr |-> property("p", "name"), direction |-> "DESC"],
                                     [expr |-> property("p", "age"), direction |-> "ASC"]>>],
     [tag |-> "Skip", count |-> 5],
     [tag |-> "Limit", count |-> 10] >>

\* The keys and values of the authored parameter mappings.
ParamPool ==
  << Entry("minAge", Num(18)),
     Entry("active", Bool(TRUE)),
     Entry("Zeta", Str("z")),
     Entry("10", Num(10)),
     Entry("9", Num(9)),
     Entry("__proto__", Num(5)) >>

\* The sequences of at most n different indices of 1..size.
RECURSIVE Arrangements(_, _)
Arrangements(size, n) ==
  IF n = 0 THEN { <<>> }
  ELSE LET shorter == Arrangements(size, n - 1)
           longest == { s \in shorter : Len(s) = n - 1 }
           unused(s) == { i \in 1..size : \A j \in 1..Len(s) : s[j] # i }
       IN  shorter \cup UNION { { Append(s, i) : i \in unused(s) } : s \in longest }

Orderings(n) == { f \in [1..n -> 1..n] : \A i, j \in 1..n : f[i] = f[j] => i = j }

\* An object as the author's literal builds it: the entries are set in the
\* order written.
ParamsOf(indices) == fromEntries([i \in 1..Len(indices) |-> ParamPool[indices[i]]])

minAge18 == fromEntries(<<Entry("minAge", Num(18))>>)

EmptyQuery == query(<<>>, <<>>)
NoResult == [cypher |-> "", params |-> <<>>]

\* ------------------------------------------------------------------------
\* The state: a caller holds an authored query q1, calls compile, normalize
\* and astHash on it, writes a rewriting q2 of it and calls them on q2.
\* ------------------------------------------------------------------------
VARIABLES
  pc,     \* the caller's position
  rel,    \* how q2 was obtained from q1
  q1,     \* the authored query
  q2,     \* the rewritten query
  c0,     \* compile(q1)
  n1,     \* normalize(q1)
  nn1,    \* normalize(normalize(q1))
  c1,     \* compile(normalize(q1))
  n2,     \* normalize(q2)
  h1,     \* astHash(q1)
  h2,     \* astHash(q2)
  c2,     \* compile(q2)
  measurements,  \* LatencyTracker.measurements
  recorded,      \* every latency recorded since the tracker was created or reset
  reading,       \* what the last read of the tracker returned
  store,         \* the plan database file at dbPath
  report,        \* what the last detectDrift returned
  now,               \* Date.now()
  circuitBreakers,   \* the circuit breaker registry
  idempotencyKeys,   \* the idempotency cache
  invocations,       \* the invocations of withIdempotency
  execution,         \* what the call of executeWithPolicies did
  wrapped,           \* the Effects that withCircuitBreaker returned and their runs
  history            \* what was called on each breaker and how the wrapped effects ended

astVars == <<pc, rel, q1, q2, c0, n1, nn1, c1, n2, h1, h2, c2>>
trackerVars == <<measurements, recorded, reading>>
driftVars == <<store, report>>
guardVars == <<wrapped, history>>
policyVars == <<now, circuitBreakers, idempotencyKeys, invocations, execution, guardVars>>
restVars == <<trackerVars, driftVars, policyVars>>
vars == <<astVars, restVars>>

NoReading == [of |-> "nothing"]

\* new LatencyTracker()
InitTracker ==
  /\ measurements = <<>>
  /\ recorded = <<>>
  /\ reading = NoReading

\* No file at dbPath, and the records of a file that is there.
MissingFile == [exists |-> FALSE, records |-> <<>>]
File(records) == [exists |-> TRUE, records |-> records]

NoReport == [of |-> "nothing"]

\* The plan database as the tool finds it, before any call.
InitDrift(found) ==
  /\ store = found
  /\ report = NoReport

\* The names of circuit breakers and the idempotency keys in use, and the
\* most invocations of withIdempotency.
BreakerNames == {"neo4j-queries"}
IdempotencyKeyPool == {"unique-operation-id"}
MaxInvocations == 2

\* No breaker of that name in the registry, no entry of that key in the
\* cache, an invocation not yet made, no call of executeWithPolicies yet.
NoBreaker == [state |-> "none", failures |-> 0, lastFailureTime |-> 0]
NotCached == [cached |-> FALSE, timestamp |-> 0, result |-> 0]
NotInvoked == [pc |-> "idle", key |-> "", ttlMs |-> 0, started |-> 0, ran |-> FALSE, result |-> 0]
NoExecution == [of |-> "nothing"]
NotWrapped == [pc |-> "idle", name |-> ""]

\* The most Effects built by withCircuitBreaker.
MaxWrapped == 2

\* Nothing called on the breaker yet: the recordFailure calls since the last
\* recordSuccess and the time of the last one, the last method called, the
\* wrapped effects that failed since the last one that succeeded and the
\* time the last one failed.
NoHistory ==
  [failuresSince |-> 0, failedAt |-> 0, lastCall |-> "none", failedRuns |-> 0, runFailedAt |-> 0]

\* The module as loaded: an empty registry and an empty cache.
InitPolicies ==
  /\ now = 0
  /\ circuitBreakers = [name \in BreakerNames |-> NoBreaker]
  /\ idempotencyKeys = [key \in IdempotencyKeyPool |-> NotCached]
  /\ invocations = [i \in 1..MaxInvocations |-> NotInvoked]
  /\ execution = NoExecution
  /\ wrapped = [i \in 1..MaxWrapped |-> NotWrapped]
  /\ history = [name \in BreakerNames |-> NoHistory]

\* The other components, untouched by the calls on queries.
AtRest == InitTracker /\ InitDrift(MissingFile) /\ InitPolicies

\* The caller holds the query q and has called nothing.
Holds(q) ==
  /\ pc = "authored"
  /\ rel = "same"
  /\ q1 = q
  /\ q2 = q
  /\ c0 = NoResult /\ c1 = NoResult /\ c2 = NoResult
  /\ n1 = EmptyQuery /\ nn1 = EmptyQuery /\ n2 = EmptyQuery
  /\ h1 = "" /\ h2 = ""

Authored(q) == Holds(q) /\ AtRest

where(e) == query(<<whereClause(e)>>, minAge18)

\* A condition of at most MaxNodes operators, alone in a Where clause.
InitExpr == \E e \in Exprs : Authored(where(e))

\* At most MaxClauses different clauses of the pool, in any order, with the
\* one parameter minAge or with three parameters inserted out of order.
InitClauses ==
  \E s \in Arrangements(Len(ClausePool), MaxClauses), params \in {minAge18, ParamsOf(<<1, 3, 2>>)} :
    Authored(query([i \in 1..Len(s) |-> ClausePool[s[i]]], params))

\* At most MaxParams different parameters of the pool, inserted in any order.
InitParams ==
  \E s \in Arrangements(Len(ParamPool), MaxParams) :
    Authored(query(<<whereClause(ageAtLeast)>>, ParamsOf(s)))

Condition(q) == q.clauses[1].condition
IsCondition(q) == Len(q.clauses) = 1 /\ q.clauses[1].tag = "Where"
IsChain(e) == e.tag = "BinaryOp" /\ e.op \in {"AND", "OR"}
withCondition(q, e) == query(<<whereClause(e)>>, q.params)

CompileAuthored ==
  /\ pc = "authored"
  /\ pc' = "compiled0"
  /\ c0' = compile(q1)
  /\ UNCHANGED <<rel, q1, q2, n1, nn1, c1, n2, h1, h2, c2, restVars>>

Normalize1 ==
  /\ pc = "compiled0"
  /\ pc' = "normalized"
  /\ n1' = normalize(q1)
  /\ q1' = leftByNormalize(q1)
  /\ UNCHANGED <<rel, q2, c0, nn1, c1, n2, h1, h2, c2, restVars>>

Renormalize ==
  /\ pc = "normalized"
  /\ pc' = "renormalized"
  /\ nn1' = normalize(n1)
  /\ n1' = leftByNormalize(n1)
  /\ UNCHANGED <<rel, q1, q2, c0, c1, n2, h1, h2, c2, restVars>>

Compile ==
  /\ pc = "renormalized"
  /\ pc' = "compiled"
  /\ c1' = compile(n1)
  /\ UNCHANGED <<rel, q1, q2, c0, n1, nn1, n2, h1, h2, c2, restVars>>

Hash1 ==
  /\ pc = "authored"
  /\ pc' = "hashed"
  /\ h1' = astHash(q1)
  /\ q1' = leftByNormalize(q1)
  /\ UNCHANGED <<rel, q2, c0, n1, nn1, c1, n2, h2, c2, restVars>>

\* The author writes q for q1, after the calls on q1.
Rewrite(kind, q) ==
  /\ pc \in {"compiled", "hashed"}
  /\ pc' = IF pc = "compiled" THEN "rewritten" ELSE "rewrittenHashed"
  /\ rel' = kind
  /\ q2' = q
  /\ UNCHANGED <<q1, c0, n1, nn1, c1, n2, h1, h2, c2, restVars>>

\* The two operands of the AND/OR at the root in the other order.
SwapOperands ==
  /\ IsCondition(q1) /\ IsChain(Condition(q1))
  /\ LET e == Condition(q1)
     IN  Rewrite("swap", withCondition(q1, binaryOp(e.op, e.right, e.left)))

\* A chain of three operands in another operand order or nesting.
Regroup ==
  /\ IsCondition(q1) /\ IsChain(Condition(q1))
  /\ LET e == Condition(q1)
         operands == collectOperands(e.op, e)
     IN  /\ Len(operands) = 3
         /\ \E f \in Orderings(3), leftNested \in BOOLEAN :
              LET a == operands[f[1]]
                  b == operands[f[2]]
                  c == operands[f[3]]
                  regrouped == IF leftNested THEN binaryOp(e.op, binaryOp(e.op, a, b), c)
                               ELSE binaryOp(e.op, a, binaryOp(e.op, b, c))
              IN  /\ regrouped # e
                  /\ Rewrite("regroup", withCondition(q1, regrouped))

\* NOT(NOT(e)) for the condition e.
DoubleNegate ==
  /\ IsCondition(q1)
  /\ Rewrite("dneg", withCondition(q1, not(not(Condition(q1)))))

\* The same parameters inserted in another order.
ReorderParams ==
  \E f \in Orderings(Len(q1.params)) :
    LET reordered == fromEntries([i \in 1..Len(q1.params) |-> q1.params[f[i]]])
    IN  /\ \E i \in 1..Len(q1.params) : f[i] # i
        /\ Rewrite("params", query(q1.clauses, reordered))

Normalize2 ==
  /\ pc = "rewritten"
  /\ pc' = "done"
  /\ n2' = normalize(q2)
  /\ q2' = leftByNormalize(q2)
  /\ UNCHANGED <<rel, q1, c0, n1, nn1, c1, h1, h2, c2, restVars>>

Hash2 ==
  /\ pc = "rewrittenHashed"
  /\ pc' = "doneHashed"
  /\ h2' = astHash(q2)
  /\ q2' = leftByNormalize(q2)
  /\ UNCHANGED <<rel, q1, c0, n1, nn1, c1, n2, h1, c2, restVars>>

\* The calls on conditions and their rewritings.
NextExpr ==
  \/ CompileAuthored
  \/ Normalize1
  \/ Renormalize
  \/ Compile
  \/ SwapOperands
  \/ Regroup
  \/ DoubleNegate
  \/ Normalize2

SpecExpr == InitExpr /\ [][NextExpr]_vars

\* The calls on clause lists.
NextClauses ==
  \/ CompileAuthored
  \/ Normalize1
  \/ Renormalize
  \/ Compile

SpecClauses == InitClauses /\ [][NextClauses]_vars

\* compile, normalize and astHash called on authored clause lists, and
\* normalize and compile called on what normalize returned.
NextCalls ==
  \/ CompileAuthored
  \/ Normalize1
  \/ Renormalize
  \/ Compile
  \/ Hash1

\* The authored clause lists with three parameters inserted out of order.
InitCalls ==
  \E s \in Arrangements(Len(ClausePool), MaxClauses) :
    Authored(query([i \in 1..Len(s) |-> ClausePool[s[i]]], ParamsOf(<<1, 3, 2>>)))

SpecCalls == InitCalls /\ [][NextCalls]_vars

\* The calls on parameter mappings and their reorderings.
NextParams ==
  \/ CompileAuthored
  \/ Normalize1
  \/ Renormalize
  \/ Compile
  \/ ReorderParams
  \/ Normalize2

SpecParams == InitParams /\ [][NextParams]_vars

\* The hashes of a query and of its rewritings.
InitHash == InitExpr \/ InitParams

NextHash ==
  \/ Hash1
  \/ SwapOperands
  \/ DoubleNegate
  \/ ReorderParams
  \/ Hash2

SpecHash == InitHash /\ [][NextHash]_vars

\* The hashes of a query with its parameters and of its reorderings.
NextDigest ==
  \/ Hash1
  \/ ReorderParams
  \/ Hash2

SpecDigest == InitParams /\ [][NextDigest]_vars

\* The caller normalizes the query and keeps the result to hash it, as the
\* README example does: const normalized = normalize(q); astHash(normalized).
KeepNormalized == Rewrite("normalized", normalize(q1))

\* The hashes of a condition and of its normal form.
NextReadme ==
  \/ Hash1
  \/ KeepNormalized
  \/ Hash2

SpecReadme == InitExpr /\ [][NextReadme]_vars

\* The patterns of the authored Match clauses.
PatternPool == << ClausePool[1].pattern, ClausePool[4].pattern >>

\* A Match clause, optional or not, alone or followed by a Return; or a
\* condition alone in a Where clause.
InitText ==
  \/ InitExpr
  \/ \E i \in 1..Len(PatternPool), optional \in BOOLEAN, returned \in BOOLEAN :
       Authored(query(<<matchClause(PatternPool[i], optional)>>
                        \o (IF returned THEN <<ClausePool[3]>> ELSE <<>>), minAge18))

\* The author writes q for q1, after compile(q1).
RewriteText(kind, q) ==
  /\ pc = "compiled0"
  /\ pc' = "rewrittenText"
  /\ rel' = kind
  /\ q2' = q
  /\ UNCHANGED <<q1, c0, n1, nn1, c1, n2, h1, h2, c2, restVars>>

\* The same Match clause with the other value of optional.
ToggleOptional ==
  /\ Len(q1.clauses) >= 1 /\ q1.clauses[1].tag = "Match"
  /\ RewriteText("optional",
                 query(<<matchClause(q1.clauses[1].pattern, ~q1.clauses[1].optional)>>
                         \o Tail(q1.clauses), q1.params))

\* AND(a, OR(b, c)) regrouped as OR(AND(a, b), c).
Reassociate ==
  /\ IsCondition(q1)
  /\ LET e == Condition(q1)
     IN  /\ e.tag = "BinaryOp" /\ e.op = "AND"
         /\ e.right.tag = "BinaryOp" /\ e.right.op = "OR"
         /\ RewriteText("reassoc",
                        withCondition(q1, or(and(e.left, e.right.left), e.right.right)))

Compile2 ==
  /\ pc = "rewrittenText"
  /\ pc' = "doneText"
  /\ c2' = compile(q2)
  /\ UNCHANGED <<rel, q1, q2, c0, n1, nn1, c1, n2, h1, h2, restVars>>

\* The texts of a query and of its rewritings.
NextText ==
  \/ CompileAuthored
  \/ ToggleOptional
  \/ Reassociate
  \/ Compile2

SpecText == InitText /\ [][NextText]_vars

\* A chain that mixes the two operators: an AND above an OR, or an OR above
\* an AND, as the left operand, with comparisons as operands and, in the
\* second place of the inner chain, every condition of at most one operator.
MixedChains ==
  { e \in { binaryOp(outer, binaryOp(inner, a, b), c) :
              outer \in {"AND", "OR"}, inner \in {"AND", "OR"},
              a \in Atoms, b \in Atoms \cup ExprsOfSize(1), c \in Atoms } :
      e.left.op # e.op }

InitMixed == \E e \in MixedChains : Authored(where(e))

\* The two operands of the chain below the root in the other order:
\* AND(OR(a, b), c) rewritten as AND(OR(b, a), c).
SwapInner ==
  /\ IsCondition(q1) /\ IsChain(Condition(q1))
  /\ LET e == Condition(q1)
     IN  /\ IsChain(e.left) /\ e.left.op # e.op
         /\ Rewrite("swapInner",
                    withCondition(q1, binaryOp(e.op, binaryOp(e.left.op, e.left.right, e.left.left),
                                               e.right)))

\* The calls on mixed chains and their rewritings.
NextMixed ==
  \/ CompileAuthored
  \/ Normalize1
  \/ Renormalize
  \/ Compile
  \/ SwapOperands
  \/ SwapInner
  \/ Normalize2

SpecMixed == InitMixed /\ [][NextMixed]_vars

\* The relationship of the authored paths.
knows(properties) == relationship("out", Some("KNOWS"), Some("r"), properties)

\* The largest number of labels of an authored node and of properties of an
\* authored node or relationship.
MaxLabels == 2
MaxProperties == 2

\* The labels and the properties the authored patterns are drawn from.
LabelPool == << "User", "Admin", "Person" >>

PropertyPool ==
  << Entry("name", param("name")),
     Entry("age", literal(Num(30))),
     Entry("active", not(not(cityIsNYC))),
     Entry("10", literal(Str("ten"))),
     Entry("9", literal(Str("nine"))) >>

\* A property object as the author's literal builds it.
PropertiesOf(indices) == Some(fromEntries([i \in 1..Len(indices) |-> PropertyPool[indices[i]]]))

\* A node alone, or a Path of that node, a relationship with the same
\* properties and a second node.
PatternOf(kind, labels, properties) ==
  IF kind = "Node" THEN node("p", labels, properties)
  ELSE path(<<node("p", labels, properties), knows(properties), node("c", <<"City">>, None)>>)

\* A Match of a pattern with at most MaxLabels labels and MaxProperties
\* properties of the pools, written in any order.
InitPatterns ==
  \E kind \in {"Node", "Path"},
     l \in Arrangements(Len(LabelPool), MaxLabels),
     k \in Arrangements(Len(PropertyPool), MaxProperties) :
    Authored(query(<<matchClause(PatternOf(kind, [i \in 1..Len(l) |-> LabelPool[l[i]]],
                                           PropertiesOf(k)), FALSE)>>, minAge18))

\* The same pattern with its labels written and its properties inserted in
\* another order.
ReorderPattern ==
  /\ Len(q1.clauses) = 1 /\ q1.clauses[1].tag = "Match"
  /\ LET pattern == q1.clauses[1].pattern
         first == IF pattern.tag = "Path" THEN pattern.elements[1] ELSE pattern
         properties == Get(first.properties)
     IN  \E f \in Orderings(Len(first.labels)), g \in Orderings(Len(properties)) :
           LET labels == [i \in 1..Len(first.labels) |-> first.labels[f[i]]]
               reordered == Some(fromEntries([i \in 1..Len(properties) |-> properties[g[i]]]))
           IN  /\ \/ \E i \in 1..Len(first.labels) : f[i] # i
                  \/ \E i \in 1..Len(properties) : g[i] # i
               /\ Rewrite("pattern",
                          query(<<matchClause(PatternOf(pattern.tag, labels, reordered), FALSE)>>,
                                q1.params))

\* The calls on patterns and their reorderings.
NextPatterns ==
  \/ CompileAuthored
  \/ Normalize1
  \/ Renormalize
  \/ Compile
  \/ ReorderPattern
  \/ Normalize2

SpecPatterns == InitPatterns /\ [][NextPatterns]_vars

\* The longest chain of NOTs an author writes above an operand.
MaxNots == 3

RECURSIVE notChain(_, _)
notChain(k, e) == IF k = 0 THEN e ELSE not(notChain(k - 1, e))

\* The operands below the NOTs: a comparison, an AND with a negated operand,
\* a function call and an IS NULL test, each with a NOT NOT inside.
Cores ==
  { cityIsNYC,
    and(not(not(cityIsSF)), cityIsNYC),
    function("exists", <<not(not(cityIsSF))>>),
    unaryOp("IS NULL", not(not(property("p", "city")))) }

\* The places of a query that hold an expression.
Positions ==
  { "where", "return", "with", "set", "orderBy", "function", "comparison",
    "nodeProperty", "relationshipProperty", "pathNodeProperty" }

\* A clause with the expression e at the position, in a sequence written in
\* an order that no sort would leave as it is.
Placed(position, e) ==
  CASE position = "where" -> whereClause(e)
    [] position = "return" ->
         returnClause(<<returnVariable("p", None), returnExpression(e, Some("flag"))>>)
    [] position = "with" ->
         withClause(<<returnVariable("p", None), returnExpression(e, Some("flag"))>>)
    [] position = "set" ->
         setClause(<<assignment("p", "name", param("name")), assignment("p", "active", e)>>)
    [] position = "orderBy" ->
         orderByClause(<<orderItem(property("p", "name"), "DESC"), orderItem(e, "ASC")>>)
    [] position = "function" ->
         whereClause(function("coalesce", <<property("p", "name"), e, literal(Bool(FALSE))>>))
    [] position = "comparison" ->
         whereClause(binaryOp("=", property("p", "name"), e))
    [] position = "nodeProperty" ->
         matchClause(node("p", <<"Person">>, Some(<<Entry("name", param("name")), Entry("active", e)>>)),
                     FALSE)
    [] position = "relationshipProperty" ->
         matchClause(path(<<node("p", <<>>, None), knows(Some(<<Entry("active", e)>>)),
                            node("c", <<>>, None)>>), FALSE)
    [] position = "pathNodeProperty" ->
         createClause(path(<<node("p", <<>>, None), knows(None),
                             node("c", <<"City">>, Some(<<Entry("active", e)>>))>>))

\* One clause with a chain of at most MaxNots NOTs at one position, followed
\* by a Delete of two variables.
InitPositions ==
  \E position \in Positions, k \in 0..MaxNots, core \in Cores :
    Authored(query(<<Placed(position, notChain(k, core)), deleteClause(<<"r", "c">>, TRUE)>>,
                   minAge18))

\* The calls on queries with an expression at each position.
NextPositions ==
  \/ CompileAuthored
  \/ Normalize1
  \/ Renormalize
  \/ Compile

SpecPositions == InitPositions /\ [][NextPositions]_vars

\* ------------------------------------------------------------------------
\* LatencyTracker
\* ------------------------------------------------------------------------

\* The number of measurements the tracker keeps.
KeptMeasurements == 1000

\* The largest number of latencies recorded before percentiles are read,
\* and the number of latencies recorded beyond KeptMeasurements.
MaxSamples == 25
MaxOverflow == 3

\* The recorded latencies: the first is any of Latencies, the n-th follows
\* a ramp of four values.
Latencies == {100, 200}
latencyAt(n) == 300 + 10 * (n % 4)
Percents == {28, 50, 95, 99, 100}

\* record with pop in place of shift: the newest measurement is dropped.
recordEvictingNewest(stored, latencyMs) ==
  LET pushed == Append(stored, latencyMs)
  IN  IF Len(pushed) > KeptMeasurements THEN SubSeq(pushed, 1, Len(pushed) - 1) ELSE pushed

\* record: push, then shift once the array is longer than KeptMeasurements.
record(stored, latencyMs) ==
  LET pushed == Append(stored, latencyMs)
  IN  IF Len(pushed) > KeptMeasurements THEN Tail(pushed) ELSE pushed

\* [...stored].sort((a, b) => a - b)[index], for 0 <= index < stored.length:
\* the value with at most index values before it and more than index up to
\* it.
sortedAt(stored, index) ==
  LET n == Len(stored)
      values == { stored[i] : i \in 1..n }
  IN  CHOOSE v \in values :
        /\ Cardinality({ i \in 1..n : stored[i] < v }) <= index
        /\ Cardinality({ i \in 1..n : stored[i] <= v }) > index

\* getPercentile
getPercentile(stored, p) ==
  IF Len(stored) = 0 THEN 0
  ELSE LET index == ceil(times(divide(p, 100), Len(stored))) - 1
           at == IF index > 0 THEN index ELSE 0
       IN  IF at >= Len(stored) THEN 0 ELSE sortedAt(stored, at)

getStats(stored) ==
  [of |-> "stats", p50 |-> getPercentile(stored, 50), p95 |-> getPercentile(stored, 95),
   p99 |-> getPercentile(stored, 99), count |-> Len(stored)]

restOfTracker == <<astVars, driftVars, policyVars>>

RecordUpTo(limit) ==
  /\ Len(recorded) < limit
  /\ \E latencyMs \in (IF Len(recorded) = 0 THEN Latencies ELSE {latencyAt(Len(recorded) + 1)}) :
       /\ measurements' = record(measurements, latencyMs)
       /\ recorded' = Append(recorded, latencyMs)
  /\ reading' = NoReading
  /\ UNCHANGED restOfTracker

Record == RecordUpTo(MaxSamples)
RecordMany == RecordUpTo(KeptMeasurements + MaxOverflow)

GetPercentile ==
  /\ \E p \in Percents :
       reading' = [of |-> "percentile", p |-> p, value |-> getPercentile(measurements, p)]
  /\ UNCHANGED <<measurements, recorded, restOfTracker>>

GetStats ==
  /\ reading' = getStats(measurements)
  /\ UNCHANGED <<measurements, recorded, restOfTracker>>

Reset ==
  /\ measurements' = <<>>
  /\ recorded' = <<>>
  /\ reading' = NoReading
  /\ UNCHANGED restOfTracker

\* A tracker of few samples, read at every size.
NextTracker ==
  \/ Record
  \/ GetPercentile
  \/ GetStats
  \/ Reset

SpecTracker == Authored(EmptyQuery) /\ [][NextTracker]_vars

\* A tracker filled beyond KeptMeasurements.
NextTrackerFull ==
  \/ RecordMany
  \/ GetStats
  \/ Reset

SpecTrackerFull == Authored(EmptyQuery) /\ [][NextTrackerFull]_vars

\* ------------------------------------------------------------------------
\* The plan drift detector (tools/plan-drift-detector.ts)
\* ------------------------------------------------------------------------

\* generatePlanDigest: the same fold as simpleHash, over JSON.stringify(plan)
generatePlanDigest(plan) == simpleHash(jsonValue(plan))

\* One PlanRecord (the timestamp is left out: nothing reads it).
PlanRecord(queryHash, cypher, planDigest, version) ==
  [queryHash |-> queryHash, cypher |-> cypher, planDigest |-> planDigest, version |-> version]

\* The loop of recordPlans: one record pushed for each plan, the queryHash
\* made of the length of the query text and of the digest of the plan.
RECURSIVE pushPlans(_, _, _)
pushPlans(records, plans, version) ==
  IF Len(plans) = 0 THEN records
  ELSE LET digest == generatePlanDigest(plans[1].plan)
           hash == "query-" \o numberToString(Len(plans[1].query)) \o "-" \o digest
       IN  pushPlans(Append(records, PlanRecord(hash, plans[1].query, digest, version)),
                     Tail(plans), version)

\* recordPlans: the file read if it exists, the records pushed, the file
\* written (JSON.stringify and JSON.parse give back the strings they got).
recordPlans(found, plans, version) == File(pushPlans(found.records, plans, version))

substring(s, from, to) == SubSeq(s, from + 1, IF to < Len(s) THEN to ELSE Len(s))

\* detectDrift: { driftDetected, drifts }
detectDrift(found, currentVersion, previousVersion, thresholdPercent) ==
  LET ofVersion(v) == SelectSeq(found.records, LAMBDA r : r.version = v)
      currentPlans == ofVersion(currentVersion)
      previousPlans == ofVersion(previousVersion)
      \* new Map(previousPlans.map(...)): the last record of a queryHash stays
      has(hash) == \E i \in 1..Len(previousPlans) : previousPlans[i].queryHash = hash
      get(hash) == previousPlans[CHOOSE i \in 1..Len(previousPlans) :
                                   /\ previousPlans[i].queryHash = hash
                                   /\ \A j \in (i + 1)..Len(previousPlans) :
                                         previousPlans[j].queryHash # hash]
      changed == SelectSeq(currentPlans,
                           LAMBDA c : has(c.queryHash) /\ c.planDigest # get(c.queryHash).planDigest)
      drifts == [i \in 1..Len(changed) |->
                   [query |-> substring(changed[i].cypher, 0, 60),
                    change |-> get(changed[i].queryHash).planDigest \o " → " \o changed[i].planDigest]]
      \* (drifts.length / currentPlans.length) * 100 > thresholdPercent
      driftDetected == IF Len(drifts) = 0 THEN 0 > thresholdPercent
                       ELSE greater(times(divide(Len(drifts), Len(currentPlans)), 100),
                                    thresholdPercent)
  IN  IF ~found.exists \/ Len(currentPlans) = 0 \/ Len(previousPlans) = 0
      THEN [driftDetected |-> FALSE, drifts |-> <<>>]
      ELSE [driftDetected |-> driftDetected, drifts |-> drifts]

\* The largest numbers of current records with a changed plan and with the
\* same plan in a plan database found at dbPath.
MaxChanged == 11
MaxSame == 9

Versions == {"v1.1.0", "v1.2.0", "v1.3.0"}
Thresholds == {0, 10, 55}

\* A plan database of two versions: for i up to changed, and for the next
\* same, a query recorded under both, with another and with the same
\* digest; fresh queries recorded under the later version only; if
\* rerecorded, one query recorded twice under the earlier version, the
\* second time with the digest it has under the later one.
Database(changed, same, fresh, rerecorded) ==
  LET text(i) == "MATCH (n:L" \o numberToString(i) \o ") RETURN n"
      hash(i) == "query-" \o numberToString(i)
      before(i) == PlanRecord(hash(i), text(i), "0000000a", "v1.1.0")
      after(i) == PlanRecord(hash(i), text(i),
                             IF i <= changed THEN "0000000b" ELSE "0000000a", "v1.2.0")
      shared == changed + same
  IN  File([i \in 1..shared |-> before(i)]
           \o (IF rerecorded
               THEN << before(shared + fresh + 1),
                       PlanRecord(hash(shared + fresh + 1), text(shared + fresh + 1),
                                  "0000000b", "v1.1.0"),
                       PlanRecord(hash(shared + fresh + 1), text(shared + fresh + 1),
                                  "0000000b", "v1.2.0") >>
               ELSE <<>>)
           \o [i \in 1..(shared + fresh) |-> after(i)])

Databases ==
  {MissingFile} \cup { Database(changed, same, fresh, rerecorded) :
                         changed \in 0..MaxChanged, same \in 0..MaxSame,
                         fresh \in 0..1, rerecorded \in BOOLEAN }

restOfDrift == <<astVars, trackerVars, policyVars>>

DetectDrift ==
  \E currentVersion, previousVersion \in Versions, thresholdPercent \in Thresholds :
    /\ report' = [of |-> "drift", currentVersion |-> currentVersion,
                   previousVersion |-> previousVersion, thresholdPercent |-> thresholdPercent,
                   result |-> detectDrift(store, currentVersion, previousVersion, thresholdPercent)]
    /\ UNCHANGED <<store, restOfDrift>>

\* detectDrift on a plan database found at dbPath.
InitDetect ==
  \E found \in Databases :
    Holds(EmptyQuery) /\ InitTracker /\ InitDrift(found) /\ InitPolicies
NextDetect == DetectDrift
SpecDetect == InitDetect /\ [][NextDetect]_vars

\* The query texts and the plans recorded, and the most records written.
QueryTexts == {"MATCH (n) RETURN n", "MATCH (p:Person) RETURN p"}
Plans == {Str("AllNodesScan"), Str("NodeByLabelScan")}
MaxRecords == 3

RecordPlans ==
  \E text \in QueryTexts, plan \in Plans, version \in Versions :
    /\ Len(store.records) < MaxRecords
    /\ store' = recordPlans(store, <<[query |-> text, plan |-> plan]>>, version)
    /\ report' = NoReport
    /\ UNCHANGED restOfDrift

\* recordPlans and detectDrift on a plan database the tool creates.
NextRecord == RecordPlans \/ DetectDrift
SpecRecord == Authored(EmptyQuery) /\ [][NextRecord]_vars

\* ------------------------------------------------------------------------
\* The execution policies (src/index.ts, lines 39-224)
\* ------------------------------------------------------------------------

\* new CircuitBreaker(): threshold = 5, timeoutMs = 60000
BreakerThreshold == 5
BreakerTimeoutMs == 60000
NewCircuitBreaker == [state |-> "closed", failures |-> 0, lastFailureTime |-> 0]

\* isOpen: what it returns and the breaker it leaves.
isOpen(breaker, time) ==
  IF breaker.state = "open"
  THEN IF time - breaker.lastFailureTime >= BreakerTimeoutMs
       THEN [open |-> FALSE, breaker |-> [breaker EXCEPT !.state = "half-open"]]
       ELSE [open |-> TRUE, breaker |-> breaker]
  ELSE [open |-> FALSE, breaker |-> breaker]

recordSuccess(breaker) == [breaker EXCEPT !.failures = 0, !.state = "closed"]

\* recordFailure opening the breaker one failure late.
recordFailureAbove(breaker, time) ==
  [breaker EXCEPT !.failures = @ + 1,
                  !.lastFailureTime = time,
                  !.state = IF breaker.failures + 1 > BreakerThreshold THEN "open" ELSE @]

recordFailure(breaker, time) ==
  [breaker EXCEPT !.failures = @ + 1,
                  !.lastFailureTime = time,
                  !.state = IF breaker.failures + 1 >= BreakerThreshold THEN "open" ELSE @]

\* getCircuitBreaker: the registry with the breaker of that name in it.
getCircuitBreaker(registry, name) ==
  IF registry[name] = NoBreaker THEN [registry EXCEPT ![name] = NewCircuitBreaker] ELSE registry

\* withIdempotency: ttlMs = 300000 unless given.
DefaultTtlMs == 300000
TtlsMs == {60000, DefaultTtlMs}

\* retrySchedules.exponential(maxRetries): the delays start at 100 ms and
\* double, maxRetries retries at most.  The caller asks for MaxRetries.
MaxRetries == 1
RetryBaseMs == 100
exponential(maxRetries) == [baseMs |-> RetryBaseMs, maxRetries |-> maxRetries]
delayMs(schedule, retry) == schedule.baseMs * 2 ^ (retry - 1)

\* QueryPolicyConfig: each field given or not.
Configs ==
  [timeoutMs : {None, Some(5000)},
   retrySchedule : {None, Some(exponential(MaxRetries))},
   circuitBreakerName : {None} \cup { Some(name) : name \in BreakerNames },
   idempotencyKey : {None} \cup { Some(key) : key \in IdempotencyKeyPool }]

\* What the executor does: the promises of its first `failing` runs reject
\* ("error") or are still pending when a timeout is due ("slow"), the
\* promise of the next run resolves.  One executor fails more often than
\* the schedule retries.
Executors ==
  {[failing |-> 0, kind |-> "error"], [failing |-> MaxRetries + 1, kind |-> "error"]}
    \cup [failing : {1}, kind : {"error", "slow"}]

\* executeWithPolicies: the Effect it returns, tryPromise(executor), in
\* Effect.timeout if config.timeoutMs is truthy, in Effect.retry if
\* config.retrySchedule is given.  Nothing of it has run: the executor has
\* been called 0 times.  circuitBreakerName and idempotencyKey are not read.
executeWithPolicies(config, executor) ==
  [of |-> "execute", config |-> config, executor |-> executor,
   pc |-> "built", runs |-> 0, timer |-> 0]

\* Effect.timeout is applied; the run of the executor that is pending is
\* one of the failing ones.
timed(effect) == IsSome(effect.config.timeoutMs) /\ Get(effect.config.timeoutMs) # 0
failing(effect) == effect.runs <= effect.executor.failing

\* The thunk of tryPromise is called at that time: the executor runs once
\* more and its promise is pending; Effect.timeout sets its timer.
attempt(effect, time) ==
  [effect EXCEPT !.runs = @ + 1,
                 !.pc = "pending",
                 !.timer = IF timed(effect) THEN time + Get(effect.config.timeoutMs) ELSE 0]

\* An attempt has failed at that time: Effect.retry waits the delay of the
\* schedule if it has a retry left, otherwise the effect ends with the
\* failure.
failed(effect, exit, time) ==
  LET retrySchedule == effect.config.retrySchedule
  IN  IF IsSome(retrySchedule) /\ effect.runs <= Get(retrySchedule).maxRetries
      THEN [effect EXCEPT !.pc = "waiting",
                          !.timer = time + delayMs(Get(retrySchedule), effect.runs)]
      ELSE [effect EXCEPT !.pc = exit, !.timer = 0]

\* The time at which a timer fires: when it is due, or later if the event
\* loop gets to it late.
fires(timer, time) == IF time < timer THEN timer ELSE time

\* The clock advances by half the timeout of a breaker, MaxTicks times at
\* most; a breaker counts MaxFailures failures at most.
MaxTicks == 4
MaxFailures == 6
ClockStepMs == BreakerTimeoutMs \div 2

restOfPolicies == <<astVars, trackerVars, driftVars>>

Tick ==
  /\ now < MaxTicks * ClockStepMs
  /\ now' = now + ClockStepMs
  /\ UNCHANGED <<circuitBreakers, idempotencyKeys, invocations, execution, guardVars, restOfPolicies>>

\* getCircuitBreaker(name).isOpen(), .recordSuccess(), .recordFailure()
IsOpen ==
  \E name \in BreakerNames :
    /\ circuitBreakers' = [getCircuitBreaker(circuitBreakers, name) EXCEPT
                             ![name] = isOpen(@, now).breaker]
    /\ history' = [history EXCEPT ![name].lastCall = "isOpen"]
    /\ UNCHANGED <<now, idempotencyKeys, invocations, execution, wrapped, restOfPolicies>>

RecordSuccess ==
  \E name \in BreakerNames :
    /\ circuitBreakers' = [getCircuitBreaker(circuitBreakers, name) EXCEPT
                             ![name] = recordSuccess(@)]
    /\ history' = [history EXCEPT ![name].lastCall = "recordSuccess",
                                   ![name].failuresSince = 0,
                                   ![name].failedRuns = 0]
    /\ UNCHANGED <<now, idempotencyKeys, invocations, execution, wrapped, restOfPolicies>>

RecordFailure ==
  \E name \in BreakerNames :
    /\ circuitBreakers[name].failures < MaxFailures
    /\ circuitBreakers' = [getCircuitBreaker(circuitBreakers, name) EXCEPT
                             ![name] = recordFailure(@, now)]
    /\ history' = [history EXCEPT ![name].lastCall = "recordFailure",
                                   ![name].failuresSince = @ + 1,
                                   ![name].failedAt = now]
    /\ UNCHANGED <<now, idempotencyKeys, invocations, execution, wrapped, restOfPolicies>>

\* getCircuitBreaker(name) called alone: the breaker of that name is created
\* if the registry has none.
GetCircuitBreaker ==
  \E name \in BreakerNames :
    /\ circuitBreakers' = getCircuitBreaker(circuitBreakers, name)
    /\ UNCHANGED <<now, idempotencyKeys, invocations, execution, guardVars, restOfPolicies>>

\* withCircuitBreaker(effect, name) is called: the breaker is taken from the
\* registry, created if need be, and the Effect is returned; nothing of the
\* generator has run.
WithCircuitBreaker(i) ==
  \E name \in BreakerNames :
    /\ wrapped[i].pc = "idle"
    /\ circuitBreakers' = getCircuitBreaker(circuitBreakers, name)
    /\ wrapped' = [wrapped EXCEPT ![i] = [pc |-> "built", name |-> name]]
    /\ UNCHANGED <<now, idempotencyKeys, invocations, execution, history, restOfPolicies>>

\* The Effect that withCircuitBreaker returned is run, for the first time or
\* again, up to the start of the wrapped effect: if breaker.isOpen() the
\* generator throws "Circuit breaker <name> is open", otherwise the wrapped
\* effect starts.
Enter(i) ==
  LET name == wrapped[i].name
      asked == isOpen(circuitBreakers[name], now)
  IN  /\ wrapped[i].pc \in {"built", "rejected", "succeeded", "failed"}
      /\ history[name].failedRuns < MaxFailures
      /\ circuitBreakers' = [circuitBreakers EXCEPT ![name] = asked.breaker]
      /\ wrapped' = [wrapped EXCEPT ![i].pc = IF asked.open THEN "rejected" ELSE "executing"]
      /\ history' = [history EXCEPT ![name].lastCall = "isOpen"]
      /\ UNCHANGED <<now, idempotencyKeys, invocations, execution, restOfPolicies>>

\* The run of the Effect, from the end of the wrapped effect.  When it
\* succeeds the generator goes on: recordSuccess(), return result.  When it
\* fails the failure ends the Effect.gen: the generator is never resumed by
\* throw, its catch block (recordFailure) is not entered, and the failure is
\* passed on.
Leave(i) ==
  \E succeeds \in BOOLEAN :
    LET name == wrapped[i].name
    IN  /\ wrapped[i].pc = "executing"
        /\ IF succeeds
           THEN /\ circuitBreakers' = [circuitBreakers EXCEPT ![name] = recordSuccess(@)]
                /\ wrapped' = [wrapped EXCEPT ![i].pc = "succeeded"]
                /\ history' = [history EXCEPT ![name].lastCall = "recordSuccess",
                                               ![name].failuresSince = 0,
                                               ![name].failedRuns = 0]
           ELSE /\ wrapped' = [wrapped EXCEPT ![i].pc = "failed"]
                /\ history' = [history EXCEPT ![name].failedRuns = @ + 1,
                                               ![name].runFailedAt = now]
                /\ UNCHANGED circuitBreakers
        /\ UNCHANGED <<now, idempotencyKeys, invocations, execution, restOfPolicies>>

\* withIdempotency(effect, key, ttlMs), up to the start of the effect: the
\* cached result is returned if it is younger than ttlMs; otherwise the
\* entry is deleted and the effect starts.
Begin(i) ==
  \E key \in IdempotencyKeyPool, ttlMs \in TtlsMs :
    LET cached == idempotencyKeys[key]
        invoked == [NotInvoked EXCEPT !.key = key, !.ttlMs = ttlMs, !.started = now]
    IN  /\ invocations[i].pc = "idle"
        /\ IF cached.cached /\ now - cached.timestamp < ttlMs
           THEN /\ invocations' = [invocations EXCEPT
                                     ![i] = [invoked EXCEPT !.pc = "done", !.result = cached.result]]
                /\ UNCHANGED idempotencyKeys
           ELSE /\ invocations' = [invocations EXCEPT
                                     ![i] = [invoked EXCEPT !.pc = "executing", !.ran = TRUE]]
                /\ idempotencyKeys' = [idempotencyKeys EXCEPT ![key] = NotCached]
        /\ UNCHANGED <<now, circuitBreakers, execution, guardVars, restOfPolicies>>

\* withIdempotency, from the end of the effect: its result (here the number
\* of the invocation that ran it) is cached and returned; its failure is
\* passed on.
Complete(i) ==
  \E succeeds \in BOOLEAN :
    /\ invocations[i].pc = "executing"
    /\ IF succeeds
       THEN /\ idempotencyKeys' = [idempotencyKeys EXCEPT
                                     ![invocations[i].key] =
                                       [cached |-> TRUE, timestamp |-> now, result |-> i]]
            /\ invocations' = [invocations EXCEPT ![i].pc = "done", ![i].result = i]
       ELSE /\ invocations' = [invocations EXCEPT ![i].pc = "failed"]
            /\ UNCHANGED idempotencyKeys
    /\ UNCHANGED <<now, circuitBreakers, execution, guardVars, restOfPolicies>>

\* executeWithPolicies(session, query, executor, config) is called: the
\* Effect is returned and nothing of it has run.
ExecuteWithPolicies ==
  \E config \in Configs, executor \in Executors :
    /\ execution = NoExecution
    /\ execution' = executeWithPolicies(config, executor)
    /\ UNCHANGED <<now, circuitBreakers, idempotencyKeys, invocations, guardVars, restOfPolicies>>

\* The Effect is run: the first attempt starts, the thunk calls the executor
\* and returns its pending promise.
RunPromise ==
  /\ execution.of = "execute"
  /\ execution.pc = "built"
  /\ execution' = attempt(execution, now)
  /\ UNCHANGED <<now, circuitBreakers, idempotencyKeys, invocations, guardVars, restOfPolicies>>

\* The promise of the pending run resolves: the effect succeeds.
Resolve ==
  /\ execution.of = "execute"
  /\ execution.pc = "pending"
  /\ ~failing(execution) \/ (execution.executor.kind = "slow" /\ ~timed(execution))
  /\ execution' = [execution EXCEPT !.pc = "success", !.timer = 0]
  /\ UNCHANGED <<now, circuitBreakers, idempotencyKeys, invocations, guardVars, restOfPolicies>>

\* The promise of the pending run rejects: catch gives the error, and the
\* attempt has failed.
Reject ==
  /\ execution.of = "execute"
  /\ execution.pc = "pending"
  /\ failing(execution) /\ execution.executor.kind = "error"
  /\ execution' = failed(execution, "error", now)
  /\ UNCHANGED <<now, circuitBreakers, idempotencyKeys, invocations, guardVars, restOfPolicies>>

\* The timer of Effect.timeout fires while the run is pending: the attempt
\* has failed with a timeout.
Timeout ==
  /\ execution.of = "execute"
  /\ execution.pc = "pending"
  /\ failing(execution) /\ execution.executor.kind = "slow" /\ timed(execution)
  /\ now' = fires(execution.timer, now)
  /\ execution' = failed(execution, "timeout", now')
  /\ UNCHANGED <<circuitBreakers, idempotencyKeys, invocations, guardVars, restOfPolicies>>

\* The delay of the schedule is over: Effect.retry starts the next attempt.
Retry ==
  /\ execution.of = "execute"
  /\ execution.pc = "waiting"
  /\ now' = fires(execution.timer, now)
  /\ execution' = attempt(execution, now')
  /\ UNCHANGED <<circuitBreakers, idempotencyKeys, invocations, guardVars, restOfPolicies>>

\* A caller of executeWithPolicies who runs the Effect once, with the methods
\* of the breakers, one withIdempotency and the clock at any point before,
\* during and after the run.
NextPolicies ==
  \/ Tick
  \/ IsOpen
  \/ RecordSuccess
  \/ RecordFailure
  \/ Begin(1)
  \/ Complete(1)
  \/ ExecuteWithPolicies
  \/ RunPromise
  \/ Resolve
  \/ Reject
  \/ Timeout
  \/ Retry

SpecPolicies == Authored(EmptyQuery) /\ [][NextPolicies]_vars

\* The methods of a breaker called in any order at any time.
NextBreaker ==
  \/ Tick
  \/ GetCircuitBreaker
  \/ IsOpen
  \/ RecordSuccess
  \/ RecordFailure

SpecBreaker == Authored(EmptyQuery) /\ [][NextBreaker]_vars

\* The Effects that withCircuitBreaker returned, run any number of times,
\* overlapping or not, among direct calls of the methods of the breakers.
NextGuarded ==
  \/ Tick
  \/ GetCircuitBreaker
  \/ IsOpen
  \/ RecordSuccess
  \/ RecordFailure
  \/ \E i \in 1..MaxWrapped : WithCircuitBreaker(i) \/ Enter(i) \/ Leave(i)

SpecGuarded == Authored(EmptyQuery) /\ [][NextGuarded]_vars

\* The invocations of withIdempotency, overlapping or not.
NextIdempotency ==
  \/ Tick
  \/ \E i \in 1..MaxInvocations : Begin(i) \/ Complete(i)

SpecIdempotency == Authored(EmptyQuery) /\ [][NextIdempotency]_vars

\* ------------------------------------------------------------------------
\* Properties
\* ------------------------------------------------------------------------

Normalized == pc \in {"normalized", "renormalized", "compiled", "rewritten", "done"}
Renormalized == pc \in {"renormalized", "compiled", "rewritten", "done"}
Compiled == pc \in {"compiled", "rewritten", "done"}
CompiledAuthored == pc # "authored"

\* C1: normalize is idempotent: normalizing the normalized query gives the
\* normalized query again, for every condition, chains of three operands
\* included.
NormalizeIdempotent == Renormalized => nn1 = n1

\* C2: commutativity: the AND/OR of a and b and the AND/OR of b and a have
\* the same normal form, whatever subtrees a and b are.
OperandOrderIrrelevant == (pc = "done" /\ rel = "swap") => n2 = n1

\* C3: associativity: every nesting and operand order of a chain of three
\* operands of AND (or of OR) has the same normal form.
ChainShapeIrrelevant == (pc = "done" /\ rel = "regroup") => n2 = n1

\* C4: hash equivalence: two queries that differ only by the operand order
\* of an AND/OR, by the insertion order of the parameters or by NOT(NOT(x))
\* for x have the same astHash.
HashEquivalence == pc = "doneHashed" => h2 = h1

\* C5: double-negation elimination: NOT(NOT(e)) has the normal form of e,
\* for every condition e, NOT chains included.
DoubleNegationEliminated == (pc = "done" /\ rel = "dneg") => n2 = n1

\* e is itself a chain NOT(NOT(x)), so that NOT(NOT(e)) has four NOTs in a
\* row, and both normal forms are computed and equal.
DoubleNegationWitness ==
  /\ pc = "done" /\ rel = "dneg"
  /\ Condition(q1).tag = "UnaryOp" /\ Condition(q1).expr.tag = "UnaryOp"
  /\ Condition(q2).expr.expr = Condition(q1)
  /\ n2 = n1
  /\ Condition(n1).tag = "BinaryOp"

\* The class order of the clause tags.
ClassOrder ==
  <<"Match", "Where", "Create", "Delete", "Set", "With", "Return", "OrderBy", "Skip", "Limit">>
ClassOf(tag) == CHOOSE k \in 1..Len(ClassOrder) : ClassOrder[k] = tag

\* C6: canonical clause ordering: the tags of normalize(q).clauses are
\* non-decreasing in the class order, whatever the order of q.clauses.
ClausesInClassOrder ==
  Normalized =>
    \A i, j \in 1..Len(n1.clauses) :
      i < j => ClassOf(n1.clauses[i].tag) <= ClassOf(n1.clauses[j].tag)

\* Three clauses authored in descending class order come out ascending.
ClausesInClassOrderWitness ==
  /\ pc = "normalized"
  /\ Len(q1.clauses) = 3 /\ Len(n1.clauses) = 3
  /\ ClassOf(q1.clauses[1].tag) > ClassOf(q1.clauses[2].tag)
  /\ ClassOf(q1.clauses[2].tag) > ClassOf(q1.clauses[3].tag)
  /\ ClassOf(n1.clauses[1].tag) < ClassOf(n1.clauses[2].tag)
  /\ ClassOf(n1.clauses[2].tag) < ClassOf(n1.clauses[3].tag)

SamePairs(a, b) ==
  /\ Len(a) = Len(b)
  /\ \A i \in 1..Len(a) : \E j \in 1..Len(b) : b[j] = a[i]
Ascending(keys) ==
  \A i, j \in 1..Len(keys) : i < j => codeUnitCompare(keys[i], keys[j]) < 0

\* C7: parameter canonicalization: normalize(q).params has the pairs of
\* q.params, enumerates its keys in ascending lexical order, whatever the
\* keys are, and is the same for every insertion order.
ParamsCanonical ==
  /\ Normalized => (SamePairs(q1.params, n1.params) /\ Ascending(Keys(n1.params)))
  /\ (pc = "done" /\ rel = "params") => n2.params = n1.params

\* The scenario: Match(p:Person), Where(p.age >= $minAge), Return(p) in any
\* order, with the parameters {minAge: 18}.
IsScenario(q) ==
  /\ Len(q.clauses) = 3
  /\ \A k \in 1..3 : \E i \in 1..3 : q.clauses[i] = ClausePool[k]
  /\ q.params = <<Entry("minAge", Num(18))>>

\* C8: every order of the scenario's clauses is normalized to Match, Where,
\* Return, and the normalized query compiles to the scenario's text and
\* parameters.
ScenarioCompiles ==
  (Compiled /\ IsScenario(q1)) =>
    /\ [i \in 1..3 |-> n1.clauses[i].tag] = <<"Match", "Where", "Return">>
    /\ c1.cypher = "MATCH (p:Person) WHERE p.age >= $minAge RETURN p"
    /\ c1.params = <<Entry("minAge", Num(18))>>

\* The scenario authored as Return, Where, Match.
ScenarioWitness ==
  /\ pc = "compiled"
  /\ IsScenario(q1)
  /\ [i \in 1..3 |-> q1.clauses[i].tag] = <<"Return", "Where", "Match">>
  /\ c1.cypher = "MATCH (p:Person) WHERE p.age >= $minAge RETURN p"

\* The text of each clause of the pool, rendered as it is written.
PoolText ==
  << "MATCH (p:Person)",
     "WHERE p.age >= $minAge",
     "RETURN p",
     "MATCH (b:User:Admin {name: $name, age: 30})-[r:KNOWS {since: 2020}]->(c)",
     "WHERE p.city = \"SF\" OR NOT NOT p.city = \"NYC\"",
     "CREATE (n:City {name: \"SF\"})",
     "DETACH DELETE r, c",
     "SET p.name = $name, p.age = 31",
     "WITH count(p.age) AS n, p",
     "ORDER BY p.name DESC, p.age ASC",
     "SKIP 5",
     "LIMIT 10" >>
TextOf(clause) == PoolText[CHOOSE k \in 1..Len(ClausePool) : ClausePool[k] = clause]

\* C10: compile renders what it is given: the text is the clauses' texts in
\* list order with one space between them, nothing re-sorted, and the
\* parameters are those of the query, in their order.
CompileRendersAsGiven ==
  CompiledAuthored =>
    /\ c0.cypher = Join([i \in 1..Len(q1.clauses) |-> TextOf(q1.clauses[i])], " ")
    /\ c0.params = q1.params

\* A query that is not canonical in its clause order, its labels, its
\* properties and its parameters, compiled as written.
CompileRendersAsGivenWitness ==
  /\ pc = "compiled0"
  /\ Len(q1.clauses) = 3
  /\ q1.clauses[1].tag = "Limit" /\ q1.clauses[2] = ClausePool[4] /\ q1.clauses[3].tag = "Where"
  /\ Keys(q1.params) = <<"minAge", "Zeta", "active">>
  /\ c0.params = q1.params
  /\ normalize(q1) # q1

\* C11: a Match clause with optional = true compiles to "OPTIONAL " followed
\* by the text of the same clause with optional = false, so the two texts
\* differ.
OptionalMatchRendered ==
  (pc = "doneText" /\ rel = "optional") =>
    LET optionalText == IF q1.clauses[1].optional THEN c0.cypher ELSE c2.cypher
        plainText == IF q1.clauses[1].optional THEN c2.cypher ELSE c0.cypher
    IN  /\ optionalText = "OPTIONAL " \o plainText
        /\ SubSeq(plainText, 1, 6) = "MATCH "
        /\ c2.cypher # c0.cypher

\* C12: the text compiled from AND(a, OR(b, c)) differs from the text
\* compiled from OR(AND(a, b), c): the nesting is kept in the text.
NestingKeptInText ==
  (pc = "doneText" /\ rel = "reassoc") => c2.cypher # c0.cypher

\* The last n elements of the sequence s, all of them if it has fewer.
LastOf(s, n) == IF Len(s) <= n THEN s ELSE SubSeq(s, Len(s) - n + 1, Len(s))

\* C15: the tracker is bounded: it stores the most recent
\* min(n, KeptMeasurements) of the n latencies recorded since it was created
\* or reset, in recording order, and getStats().count is that number.
TrackerBounded ==
  /\ measurements = LastOf(recorded, KeptMeasurements)
  /\ Len(measurements) = (IF Len(recorded) < KeptMeasurements THEN Len(recorded) ELSE KeptMeasurements)
  /\ reading.of = "stats" => reading.count = Len(measurements)

\* More than KeptMeasurements latencies were recorded, the first one is
\* evicted and the count was read.
TrackerBoundedWitness ==
  /\ Len(recorded) = KeptMeasurements + 2
  /\ Len(measurements) = KeptMeasurements
  /\ measurements[1] = recorded[3] /\ measurements[1] # recorded[1]
  /\ reading.of = "stats" /\ reading.count = KeptMeasurements

\* The sample at the 1-based rank of the ascending samples.
AtRank(stored, rank) ==
  CHOOSE v \in { stored[i] : i \in 1..Len(stored) } :
    /\ Cardinality({ i \in 1..Len(stored) : stored[i] < v }) < rank
    /\ Cardinality({ i \in 1..Len(stored) : stored[i] <= v }) >= rank

\* C16: an empty tracker reads 0 for every percentile and for the count;
\* with n >= 1 samples getPercentile(p) is the sample at rank ceil(p * n /
\* 100), and p50 <= p95 <= p99.
PercentileIsNearestRank ==
  LET n == Len(measurements)
  IN  /\ (reading.of = "percentile" /\ n = 0) => reading.value = 0
      /\ (reading.of = "percentile" /\ n > 0) =>
            reading.value = AtRank(measurements, (reading.p * n + 99) \div 100)
      /\ (reading.of = "stats" /\ n = 0) =>
            reading = [of |-> "stats", p50 |-> 0, p95 |-> 0, p99 |-> 0, count |-> 0]
      /\ reading.of = "stats" => (reading.p50 <= reading.p95 /\ reading.p95 <= reading.p99)

\* The fold h' = ((h * 33) XOR code) mod 2^32 on four bytes, the least
\* significant first.
xorByte(a, b) ==
  LET bit(k) == ((a \div k) + (b \div k)) % 2
  IN  bit(1) + 2 * bit(2) + 4 * bit(4) + 8 * bit(8) + 16 * bit(16)
      + 32 * bit(32) + 64 * bit(64) + 128 * bit(128)

wrappedStep(b, code) ==
  LET t1 == b[1] * 33
      t2 == b[2] * 33 + (t1 \div 256)
      t3 == b[3] * 33 + (t2 \div 256)
      t4 == b[4] * 33 + (t3 \div 256)
  IN  << xorByte(t1 % 256, code % 256), xorByte(t2 % 256, (code \div 256) % 256),
         t3 % 256, t4 % 256 >>

RECURSIVE wrappedFold(_, _, _, _)
wrappedFold(b, str, lo, hi) ==
  IF lo > hi THEN b
  ELSE IF lo = hi THEN wrappedStep(b, charCode[CharAt(str, lo)])
  ELSE LET mid == (lo + hi) \div 2
           left == wrappedFold(b, str, lo, mid)
       IN  IF left[1] < 256 THEN wrappedFold(left, str, mid + 1, hi) ELSE left

HexDigits == "0123456789abcdef"

wrappedFoldHex(str) ==
  LET b == wrappedFold(<<5381 % 256, 5381 \div 256, 0, 0>>, str, 1, Len(str))
      hex2(n) == CharAt(HexDigits, (n \div 16) + 1) \o CharAt(HexDigits, (n % 16) + 1)
  IN  hex2(b[4]) \o hex2(b[3]) \o hex2(b[2]) \o hex2(b[1])

IsHex8(s) ==
  /\ Len(s) = 8
  /\ \A i \in 1..8 : \E k \in 1..16 : CharAt(s, i) = CharAt(HexDigits, k)

\* C13: astHash returns 8 characters of [0-9a-f], the hexadecimal form,
\* padded with zeros, of the fold from 5381 of (h * 33) XOR charCode taken
\* modulo 2^32 over the serialized normalized query.
HashIsWrappedFold ==
  /\ pc = "hashed" => IsHex8(h1) /\ h1 = wrappedFoldHex(stringifyQuery(normalize(q1)))
  /\ pc = "doneHashed" => IsHex8(h2) /\ h2 = wrappedFoldHex(stringifyQuery(normalize(q2)))

\* The query and its rewriting are hashed, and the 32-bit value of the hash
\* has its top bit set (a negative int32 before >>> 0).
HashIsWrappedFoldWitness ==
  /\ pc = "doneHashed"
  /\ IsHex8(h1)
  /\ \E k \in 9..16 : CharAt(h2, 1) = CharAt(HexDigits, k)

HashPaddedWitness == pc = "hashed" /\ CharAt(h1, 1) = "0"

\* C14: normalize, compile and astHash leave their input as it was: a call
\* on the authored query leaves q1, with its clause order, operand order,
\* label order, assignment order, property key order and parameter key
\* order, and a call on the normalized query leaves n1.
InputsNeverMutated ==
  [][/\ pc' \in {"compiled0", "normalized", "hashed"} => q1' = q1
     /\ pc' \in {"renormalized", "compiled"} => n1' = n1]_vars

\* normalize has returned and has changed the order of the clauses, of the
\* labels of a node and of the assignments of a Set clause.
InputsNeverMutatedWitness ==
  /\ pc = "normalized"
  /\ \E i \in 1..Len(q1.clauses) : q1.clauses[i].tag # n1.clauses[i].tag
  /\ \E i, j \in 1..Len(q1.clauses) :
        /\ q1.clauses[i].tag = "Set" /\ n1.clauses[j].tag = "Set"
        /\ q1.clauses[i].assignments # n1.clauses[j].assignments
  /\ \E i, j \in 1..Len(q1.clauses) :
        /\ q1.clauses[i].tag = "Match" /\ q1.clauses[i].pattern.tag = "Path"
        /\ n1.clauses[j].tag = "Match"
        /\ q1.clauses[i].pattern.elements[1].labels # n1.clauses[j].pattern.elements[1].labels

\* The records of the version v in the plan database.
RecordsOf(v) == SelectSeq(store.records, LAMBDA r : r.version = v)

\* C17: detectDrift reports drift exactly when both versions have records
\* and 100 * (current records whose queryHash occurs in the previous
\* version with a different planDigest) / (current records) is greater than
\* the threshold; with no file or no record of a version it reports no
\* drift and no drifts.
DriftIsOverThreshold ==
  report.of = "drift" =>
    LET current == RecordsOf(report.currentVersion)
        previous == RecordsOf(report.previousVersion)
        changed == { i \in 1..Len(current) :
                       \E j \in 1..Len(previous) :
                         /\ previous[j].queryHash = current[i].queryHash
                         /\ previous[j].planDigest # current[i].planDigest }
    IN  /\ report.result.driftDetected =
             (/\ Len(current) > 0 /\ Len(previous) > 0
              /\ 100 * Cardinality(changed) > report.thresholdPercent * Len(current))
        /\ (~store.exists \/ Len(current) = 0 \/ Len(previous) = 0)
             => report.result = [driftDetected |-> FALSE, drifts |-> <<>>]

\* C18: when recordPlans has stored a query text under the previous
\* version and the same text with a plan of another digest under the
\* current version, detectDrift lists the query among the drifts.
ChangedPlanListed ==
  report.of = "drift" =>
    \A i, j \in 1..Len(store.records) :
      LET before == store.records[i]
          after == store.records[j]
      IN  (/\ before.version = report.previousVersion
           /\ after.version = report.currentVersion
           /\ before.version # after.version
           /\ before.cypher = after.cypher
           /\ before.planDigest # after.planDigest)
          => \E k \in 1..Len(report.result.drifts) :
               report.result.drifts[k].query = substring(after.cypher, 0, 60)

\* The breaker refuses calls at that time; the key has a result in the cache
\* younger than the default ttl.
BreakerIsOpen(name) ==
  /\ circuitBreakers[name].state = "open"
  /\ now - circuitBreakers[name].lastFailureTime < BreakerTimeoutMs
ResultIsCached(key) ==
  /\ idempotencyKeys[key].cached
  /\ now - idempotencyKeys[key].timestamp < DefaultTtlMs

\* A step in which the executor is called by the Effect of
\* executeWithPolicies.
ExecutorRuns ==
  /\ execution'.of = "execute"
  /\ execution.of = "execute"
  /\ execution'.runs = execution.runs + 1

\* C19: executeWithPolicies applies every policy of its config: with a
\* circuitBreakerName the executor is not run at a time when that breaker
\* is open, and with an idempotencyKey the executor is not run at a time
\* when a result is cached for that key.
PoliciesApplied ==
  [][ExecutorRuns =>
       LET config == execution.config
       IN  /\ ~(IsSome(config.circuitBreakerName)
                /\ BreakerIsOpen(Get(config.circuitBreakerName))')
           /\ ~(IsSome(config.idempotencyKey)
                /\ ResultIsCached(Get(config.idempotencyKey))')]_vars

\* C20: among the invocations of withIdempotency with one key that start
\* within ttlMs of each other and whose effect does not fail, overlapping or
\* not, the effect is executed at most once and all return one result.
ExecutedAtMostOnce ==
  \A i, j \in 1..MaxInvocations :
    LET a == invocations[i]
        b == invocations[j]
    IN  (/\ i # j
         /\ a.pc \in {"executing", "done"} /\ b.pc \in {"executing", "done"}
         /\ a.key = b.key
         /\ a.started - b.started < b.ttlMs /\ b.started - a.started < a.ttlMs)
        => /\ ~(a.ran /\ b.ran)
           /\ (a.pc = "done" /\ b.pc = "done") => a.result = b.result

\* C21: after BreakerThreshold wrapped effects of one name have failed with
\* no success in between, a run of an Effect that withCircuitBreaker built
\* with that name, started less than BreakerTimeoutMs after the last
\* failure, is rejected and its wrapped effect is not started.
OpenBreakerRejects ==
  [][\A name \in BreakerNames, i \in 1..MaxWrapped :
       (/\ wrapped'[i] # wrapped[i]
        /\ wrapped[i].name = name
        /\ wrapped'[i].pc \in {"executing", "rejected"}
        /\ history[name].failedRuns >= BreakerThreshold
        /\ now - history[name].runFailedAt < BreakerTimeoutMs)
       => wrapped'[i].pc = "rejected"]_vars

\* C30: a breaker is closed exactly when fewer than BreakerThreshold
\* recordFailure calls were made since the last recordSuccess, and open or
\* half-open otherwise; it goes from open to half-open only by isOpen called
\* at least BreakerTimeoutMs after the last failure, and back to closed only
\* by recordSuccess.
BreakerStateInvariant ==
  /\ [](\A name \in BreakerNames :
         circuitBreakers[name] # NoBreaker =>
           /\ circuitBreakers[name].state = "closed"
                <=> history[name].failuresSince < BreakerThreshold
           /\ circuitBreakers[name].state \in {"open", "half-open"}
                <=> history[name].failuresSince >= BreakerThreshold)
  /\ [][\A name \in BreakerNames :
         LET before == circuitBreakers[name].state
             after == circuitBreakers'[name].state
         IN  /\ (before = "open" /\ after = "half-open")
                  => /\ history'[name].lastCall = "isOpen"
                     /\ now - history[name].failedAt >= BreakerTimeoutMs
             /\ (before \in {"open", "half-open"} /\ after = "closed")
                  => history'[name].lastCall = "recordSuccess"
             /\ (before = "half-open" /\ after = "open")
                  => history'[name].lastCall = "recordFailure"]_vars

\* The breaker was opened by BreakerThreshold failures and is found
\* half-open by isOpen, BreakerTimeoutMs after the last of them.
BreakerStateInvariantWitness ==
  \E name \in BreakerNames :
    /\ circuitBreakers[name].state = "half-open"
    /\ history[name].failuresSince = BreakerThreshold
    /\ history[name].lastCall = "isOpen"
    /\ now - history[name].failedAt = BreakerTimeoutMs


\* The expressions below e, e included.
RECURSIVE SubExprs(_)
SubExprs(e) ==
  {e} \cup (CASE e.tag = "BinaryOp" -> SubExprs(e.left) \cup SubExprs(e.right)
              [] e.tag = "UnaryOp" -> SubExprs(e.expr)
              [] e.tag = "Function" -> UNION { SubExprs(e.args[i]) : i \in 1..Len(e.args) }
              [] OTHER -> {})

\* The expression positions of a property mapping, of a pattern, of a
\* clause and of a query: the property values, the Where condition, the
\* Return/With expressions, the Set values and the OrderBy items.
ValuesOf(properties) ==
  IF IsSome(properties) THEN { Get(properties)[i].v : i \in 1..Len(Get(properties)) } ELSE {}

RECURSIVE PatternPositions(_)
PatternPositions(pattern) ==
  IF pattern.tag = "Path"
  THEN UNION { PatternPositions(pattern.elements[i]) : i \in 1..Len(pattern.elements) }
  ELSE ValuesOf(pattern.properties)

ClausePositions(clause) ==
  CASE clause.tag \in {"Match", "Create"} -> PatternPositions(clause.pattern)
    [] clause.tag = "Where" -> {clause.condition}
    [] clause.tag \in {"Return", "With"} ->
         { clause.expressions[i].expr :
             i \in { j \in 1..Len(clause.expressions) : clause.expressions[j].tag = "Expression" } }
    [] clause.tag = "Set" -> { clause.assignments[i].value : i \in 1..Len(clause.assignments) }
    [] clause.tag = "OrderBy" -> { clause.items[i].expr : i \in 1..Len(clause.items) }
    [] OTHER -> {}

AllExprs(q) ==
  UNION { SubExprs(e) : e \in UNION { ClausePositions(q.clauses[i]) : i \in 1..Len(q.clauses) } }

\* C22: canonical operand order: in normalize(q), the left operand of every
\* AND/OR node, at every depth, does not sort after its right operand in the
\* order of the serialized forms.
OperandsInOrder ==
  pc = "normalized" =>
    \A e \in AllExprs(n1) : IsChain(e) => compareExpr(e.left, e.right) <= 0


IsDoubleNegation(e) == e.tag = "UnaryOp" /\ e.op = "NOT" /\ e.expr.tag = "UnaryOp" /\ e.expr.op = "NOT"

\* C23: no double negation survives normalization: no NOT of normalize(q)
\* has a NOT as its operand, in the Where condition, the Return/With
\* expressions, the Set values, the OrderBy items, the Function arguments
\* and the property values of nodes and relationships, inside a Path or not.
NoDoubleNegation ==
  pc = "normalized" => \A e \in AllExprs(n1) : ~IsDoubleNegation(e)

\* Three NOTs above an AND with a NOT NOT operand, written as a property
\* value of a relationship inside a Path, come out as one NOT above the AND.
NoDoubleNegationWitness ==
  /\ pc = "normalized"
  /\ q1.clauses[1].tag = "Match" /\ q1.clauses[1].pattern.tag = "Path"
  /\ LET written == Get(q1.clauses[1].pattern.elements[2].properties)[1].v
         returned == Get(n1.clauses[1].pattern.elements[2].properties)[1].v
     IN  /\ written = notChain(3, and(not(not(cityIsSF)), cityIsNYC))
         /\ returned = not(and(cityIsNYC, cityIsSF))


\* The right-folded tree of a sequence of operands: the first operand on
\* the left, the fold of the others on the right.
RECURSIVE rightFold(_, _)
rightFold(op, operands) ==
  IF Len(operands) = 1 THEN operands[1]
  ELSE binaryOp(op, operands[1], rightFold(op, Tail(operands)))

\* C24: associative flattening: the normal form of an AND (or OR) chain of
\* more than two leaf operands is the right-folded tree of its normalized
\* leaves, sorted by the order of the serialized forms.
ChainIsSortedRightFold ==
  (pc = "normalized" /\ IsCondition(q1) /\ IsChain(Condition(q1))) =>
    LET e == Condition(q1)
        leaves == collectOperands(e.op, e)
        normalized == [i \in 1..Len(leaves) |-> normalizeExpr(leaves[i])]
    IN  Len(leaves) > 2 =>
          Condition(n1) = rightFold(e.op, SortedBy(normalized, compareExpr))


\* C25: flattening never crosses operator boundaries: in AND(OR(a, b), c)
\* (and OR(AND(a, b), c)) the subtree of the other operator stays one
\* operand of the root of the normal form, with its own operands ordered at
\* its own level, and AND(OR(a, b), c), AND(c, OR(a, b)) and AND(OR(b, a), c)
\* have the same normal form.
MixedChainsAgree ==
  /\ (pc = "normalized" /\ IsCondition(q1)) =>
       LET e == Condition(q1)
           n == Condition(n1)
       IN  (IsChain(e) /\ IsChain(e.left) /\ e.left.op # e.op /\ ~IsChain(e.right)) =>
             /\ n.tag = "BinaryOp" /\ n.op = e.op
             /\ \E inner \in {n.left, n.right}, other \in {n.left, n.right} :
                  /\ inner # other
                  /\ IsChain(inner) /\ inner.op = e.left.op
                  /\ collectOperands(inner.op, inner) = collectOperands(inner.op, normalizeExpr(e.left))
                  /\ other = e.right
  /\ (pc = "done" /\ rel \in {"swap", "swapInner"}) => n2 = n1


\* The normal form of each operand of Cores, written out.
NormalCore(core) ==
  CASE core = cityIsNYC -> cityIsNYC
    [] core = and(not(not(cityIsSF)), cityIsNYC) -> and(cityIsNYC, cityIsSF)
    [] core = function("exists", <<not(not(cityIsSF))>>) -> function("exists", <<cityIsSF>>)
    [] core = unaryOp("IS NULL", not(not(property("p", "city")))) ->
         unaryOp("IS NULL", property("p", "city"))

\* The positions inside a sequence whose order is significant: the operands
\* of a comparison, the arguments of a function, the elements of a Path, the
\* Return and With expressions and the OrderBy items.
OrderedPositions ==
  { "return", "with", "orderBy", "function", "comparison", "relationshipProperty",
    "pathNodeProperty" }

ClauseOfTag(q, tag) == q.clauses[CHOOSE i \in 1..Len(q.clauses) : q.clauses[i].tag = tag]

\* C26: normalize never reorders the order-significant sequences: the
\* operands of a BinaryOp other than AND/OR, the Function arguments, the Path
\* elements, the Return and With expressions, the OrderBy items and the
\* Delete variables come out at the places they were written at, each
\* sub-expression normalized.
SequencesKept ==
  pc = "normalized" =>
    \A position \in OrderedPositions, k \in 0..MaxNots, core \in Cores :
      LET written == Placed(position, notChain(k, core))
      IN  (Len(q1.clauses) = 2 /\ q1.clauses[1] = written) =>
            /\ ClauseOfTag(n1, written.tag) = Placed(position, notChain(k % 2, NormalCore(core)))
            /\ ClauseOfTag(n1, "Delete") = deleteClause(<<"r", "c">>, TRUE)

\* OrderBy items written as p.name, NOT NOT (p.city = "NYC"): the second
\* item is normalized, sorts before the first one in the order of the
\* serialized forms, and stays second; the Delete variables r, c stay as
\* written.
SequencesKeptWitness ==
  /\ pc = "normalized"
  /\ q1.clauses[1] = Placed("orderBy", notChain(2, cityIsNYC))
  /\ n1.clauses[2].tag = "OrderBy"
  /\ n1.clauses[2].items[2].expr = cityIsNYC
  /\ compareExpr(n1.clauses[2].items[1].expr, n1.clauses[2].items[2].expr) > 0
  /\ n1.clauses[1].variables = <<"r", "c">>


\* The nodes and relationships of a pattern, in their order.
ElementsOf(pattern) == IF pattern.tag = "Path" THEN pattern.elements ELSE <<pattern>>

\* The number of times x occurs in the sequence s.
Occurrences(s, x) == Cardinality({ i \in 1..Len(s) : s[i] = x })

LabelsSorted(written, returned) ==
  /\ \A i, j \in 1..Len(returned) : i < j => codeUnitCompare(returned[i], returned[j]) <= 0
  /\ Len(returned) = Len(written)
  /\ \A i \in 1..Len(written) : Occurrences(returned, written[i]) = Occurrences(written, written[i])

\* The normal form of each value of PropertyPool, written out.
NormalValue(key) ==
  CASE key = "name" -> param("name")
    [] key = "age" -> literal(Num(30))
    [] key = "active" -> cityIsNYC
    [] key = "10" -> literal(Str("ten"))
    [] key = "9" -> literal(Str("nine"))

PropertiesSorted(written, returned) ==
  /\ IsSome(returned) = IsSome(written)
  /\ IsSome(written) =>
       LET keys == Keys(Get(returned))
       IN  /\ Len(keys) = Len(Get(written))
           /\ \A i \in 1..Len(Get(written)) : HasKey(Get(returned), Get(written)[i].k)
           /\ \A i, j \in 1..Len(keys) : i < j => localeCompare(keys[i], keys[j]) < 0
           /\ \A i \in 1..Len(keys) : Get(returned)[i].v = NormalValue(keys[i])

\* C27: pattern normalization: every node of normalize(q), alone or inside a
\* Path, has the labels of the written node in ascending lexical order;
\* every node and relationship has the keys of the written properties,
\* enumerated in ascending lexical order, each value normalized; and two
\* queries that differ only in the order of the labels or in the insertion
\* order of the properties have the same normal form.
PatternsCanonical ==
  /\ pc = "normalized" =>
       LET written == ElementsOf(q1.clauses[1].pattern)
           returned == ElementsOf(n1.clauses[1].pattern)
       IN  /\ Len(returned) = Len(written)
           /\ \A i \in 1..Len(written) :
                /\ returned[i].tag = written[i].tag
                /\ written[i].tag = "Node" => LabelsSorted(written[i].labels, returned[i].labels)
                /\ PropertiesSorted(written[i].properties, returned[i].properties)
  /\ (pc = "done" /\ rel = "pattern") => n2 = n1


\* C28: clause reordering is stable: the clauses of normalize(q) are the
\* clauses of q, each normalized, one for one (none added, dropped or
\* duplicated), and two clauses of the same class are in their input order.
ClausesStable ==
  pc = "normalized" =>
    /\ Len(n1.clauses) = Len(q1.clauses)
    /\ \E f \in Orderings(Len(q1.clauses)) :
         /\ \A i \in 1..Len(q1.clauses) : n1.clauses[f[i]] = normalizeClause(q1.clauses[i])
         /\ \A i, j \in 1..Len(q1.clauses) :
              (i < j /\ q1.clauses[i].tag = q1.clauses[j].tag) => f[i] < f[j]

\* Two Where clauses written before a Match, the second of the pool first:
\* the Match comes out first and the two Where clauses follow as written.
ClausesStableWitness ==
  /\ pc = "normalized"
  /\ q1.clauses = <<ClausePool[5], ClausePool[2], ClausePool[1]>>
  /\ n1.clauses = <<ClausePool[1], whereClause(or(cityIsNYC, cityIsSF)), ClausePool[2]>>


\* C29: hashing is invariant under prior normalization: astHash(normalize(q))
\* equals astHash(q) for every query q.
HashOfNormalized ==
  (pc = "doneHashed" /\ rel = "normalized") => h2 = h1

====
